---- MODULE Spec2Model ----
(***************************************************************************)
(* Multi-source acquisition pipeline of BookDownloader: the transfer       *)
(* executor (download_file, download_file_ia, book_downloader's            *)
(* download_file, the HTTP fallback of the staged negotiation), the        *)
(* relevance ranker, the search orchestrators, the artifact normalizer     *)
(* (deduplicate_chapters, cleanup_non_english_manga) and the chapter       *)
(* fetch (download_manga).                                                 *)
(***************************************************************************)
EXTENDS Integers, Sequences, FiniteSets, TLC

VARIABLES
    kind,       \* which transfer runs: "direct", "ia", "bd", "annas", or "none"
    pc,         \* position of the transfer: "attempt", "resolve", "candidate", "done", "idle"
    strategy,   \* download_file_ia: index into Strategies of the strategy being tried
    attempt,    \* value of the loop variable `attempt` (0-based)
    file,       \* what is at the path the transfer writes: "absent", "old", "partial", "complete"
    log,        \* requests issued (with the endpoint's answer) and sleeps, in order
    result,     \* return value of the transfer: "none" until it returns, then "true"/"false"
    cands,      \* staged fallback: number of entries of download_candidates
    candIdx,    \* staged fallback: 1-based index of the candidate tried next
    download_dir,   \* the transfer's download_dir, after `if download_dir is None`
    wroteIn,    \* the directory in which the transfer opened a file, "nowhere" if none
    fileBefore, \* what was at the destination path when the transfer was called
    manual,     \* the instruction to visit the book page by hand (book_url) was printed
    polls,      \* download_annas_archive_browser: iterations of the wait loop begun
    seen,       \* what the last iteration of the wait loop saw of the page
    query,      \* calculate_relevance: the query string (a sequence of characters)
    title,      \* calculate_relevance: the title string
    score,      \* calculate_relevance: the value returned, Unscored before the call
    book_title, \* handle_book_download: the search term
    bookStep,   \* handle_book_download: index of the source searched next
    all_results,    \* handle_book_download: concatenation of the sources' lists
    top_results,    \* handle_book_download: the list offered for selection
    warned,     \* book sources that printed a "search failed" warning
    bookOutcome,    \* "searching", "no_results", "no_relevant" or "offered"
    siteIdx,    \* search_all_manga_sites: index into MANGA_SITES of the next site
    manga_results,  \* search_all_manga_sites: all_results
    success_count,  \* search_all_manga_sites: sites that returned results
    failed_count,   \* search_all_manga_sites: sites that returned an error
    blocked_sites,  \* search_all_manga_sites: "<site> (<error>)" entries
    lastCall,   \* the last search_manga_site call: what the site did, what was returned
    normPc,     \* the normalizer: "ready" to be called, or "idle"
    dir,        \* names of the files in the working directory
    undeletable,    \* files of dir on which os.remove raises
    runs,       \* the normalizer calls made, each with the directory before and after
    fetchPc,    \* download_manga: "call", "child", "returned", "exited", "raised", or "idle"
    impl,       \* which download_manga runs: "downloader" or "helper"
    args,       \* download_manga: the arguments of the call
    cwd,        \* the process's working directory
    original_dir,   \* download_manga: the directory saved on entry
    cmd,        \* download_manga: the argument vector of the child process
    childExit,  \* how the child ended: "none", "ok", "nonzero" or "missing"
    childWrote, \* the files the child wrote into the working directory
    resolvePc,  \* the resolver: "name", "links", "done" or "idle"
    caller,     \* which function builds the file name
    item_title, \* the title the transfer is called with
    src_name,   \* the URL, or filename_on_server for download_file_ia
    filename,   \* the local file name built
    item_source,    \* item["source"] of the get_download_links call
    formats,    \* item["formats"]: URL by MIME type
    link,       \* what get_download_links returned, "None" for None
    requests    \* session.get calls get_download_links made

transferVars ==
    <<kind, pc, strategy, attempt, file, log, result, cands, candIdx,
      download_dir, wroteIn, fileBefore, manual, polls, seen>>
scoreVars == <<query, title, score>>

bookVars == <<book_title, bookStep, all_results, top_results, warned, bookOutcome>>

mangaVars ==
    <<siteIdx, manga_results, success_count, failed_count, blocked_sites, lastCall>>

normVars == <<normPc, dir, undeletable, runs>>

fetchVars ==
    <<fetchPc, impl, args, cwd, original_dir, cmd, childExit, childWrote>>

resolveVars ==
    <<resolvePc, caller, item_title, src_name, filename, item_source, formats,
      link, requests>>

vars ==
    <<transferVars, scoreVars, bookVars, mangaVars, normVars, fetchVars,
      resolveVars>>

\* the variables no transfer touches
otherThanTransfer ==
    <<scoreVars, bookVars, mangaVars, normVars, fetchVars, resolveVars>>

\* the variables calculate_relevance does not touch
otherThanScore ==
    <<transferVars, bookVars, mangaVars, normVars, fetchVars, resolveVars>>

\* the variables handle_book_download does not touch
otherThanBook ==
    <<transferVars, scoreVars, mangaVars, normVars, fetchVars, resolveVars>>

\* the variables search_all_manga_sites does not touch
otherThanManga ==
    <<transferVars, scoreVars, bookVars, normVars, fetchVars, resolveVars>>

\* the variables the normalizer does not touch
otherThanNorm ==
    <<transferVars, scoreVars, bookVars, mangaVars, fetchVars, resolveVars>>

\* the variables download_manga does not touch
otherThanFetch ==
    <<transferVars, scoreVars, bookVars, mangaVars, normPc, undeletable,
      resolveVars>>

\* the variables the resolver does not touch
otherThanResolve ==
    <<transferVars, scoreVars, bookVars, mangaVars, normVars, fetchVars>>

(***************************************************************************)
(* Transfer executor                                                       *)
(***************************************************************************)

\* range(3) of the retry loops
MaxAttempts == 3

\* `if attempt < 2`: the last attempt index after which a retry is scheduled
RetryLimit == 2

\* download_candidates[:5]
CandidateLimit == 5

\* largest number of links the partner page is taken to carry
MaxCandidates == 6

\* What one streamed GET can end in.  *_mid: the failure happens after the
\* destination file was opened and some chunks were written.
Outcomes ==
    {"ok", "h401", "h403", "h503", "h404",
     "timeout", "timeout_mid", "conn", "conn_mid", "exc_mid"}

\* What the un-streamed GET of the item page can end in (no raise_for_status).
ItemOutcomes == {"ok", "timeout", "conn"}

\* What the GET of one staged-negotiation candidate can end in.
CandOutcomes == {"req_exc", "not_file", "ok", "stream_fail"}

HttpErrors == {"h401", "h403", "h503", "h404"}
NetworkErrors == {"timeout", "timeout_mid", "conn", "conn_mid"}
MidStream == {"timeout_mid", "conn_mid", "exc_mid"}

Strategies_Swapped == <<"serve", "download">>

\* the strategies list of download_file_ia, in list order
Strategies == <<"download", "serve">>

Get(u, o) == [ev |-> "get", url |-> u, out |-> o, ms |-> 0]
\* a sleep; u names the endpoint whose request it delays ("item": the pause
\* after the item page visit)
Sleep(u, n) == [ev |-> "sleep", url |-> u, out |-> "", ms |-> n]

WaitTime_Constant(a) == 1000

\* 2 ** attempt seconds, in milliseconds
WaitTime(a) == (2 ^ a) * 1000

\* time.sleep(0.5) after the item page visit, in milliseconds
HumanDelay == 500

\* with open(filepath, 'wb') as f: for chunk in r.iter_content(): f.write(chunk)
AfterStream(f, o) ==
    IF o = "ok" THEN "complete"
    ELSE IF o \in MidStream THEN "partial"
    ELSE f

RemoveIfExists_Noop(f) == f

RemoveIfExists_OnlyPartial(f) == IF f = "partial" THEN "absent" ELSE f

\* if os.path.exists(filepath): os.remove(filepath)
RemoveIfExists(f) == "absent"

\* except (Timeout, ConnectionError) of download_file: the only retried errors
DirectRetryable(o) == o \in NetworkErrors

IARetryable_With401(o) == o \in {"h401", "h403", "h503"} \cup NetworkErrors

\* download_file_ia: 403, 503, Timeout and ConnectionError are retried
IARetryable(o) == o \in {"h403", "h503"} \cup NetworkErrors

\* the directory the process is in when an operation is called
StartDir == "/start"

\* the per-title directory handle_book_download passes as download_dir
BookDir == "/start/book"

\* the directory a file was opened in once the stream answered o, where
\* being the directory of the path given to open(): download_dir for
\* os.path.join(download_dir, filename), the working directory for a bare
\* file name
OpenedIn(before, o, where) ==
    IF o = "ok" \/ o \in MidStream THEN where ELSE before

\* no transfer is running
TransferIdle ==
    /\ kind = "none"
    /\ pc = "idle"
    /\ strategy = 1
    /\ attempt = 0
    /\ file = "absent"
    /\ log = <<>>
    /\ result = "none"
    /\ cands = 0
    /\ candIdx = 0
    /\ download_dir = StartDir
    /\ wroteIn = "nowhere"
    /\ fileBefore = "absent"
    /\ manual = FALSE
    /\ polls = 0
    /\ seen = "nothing"

TransferStart ==
    /\ kind \in {"direct", "ia", "bd", "annas", "browser"}
    /\ pc = IF kind = "annas" THEN "resolve"
            ELSE IF kind = "browser" THEN "open"
            ELSE "attempt"
    /\ strategy = 1
    /\ attempt = 0
    /\ file \in {"absent", "old"}
    /\ log = <<>>
    /\ result = "none"
    /\ cands = 0
    /\ candIdx = 0
    /\ download_dir \in IF kind = "bd" THEN {StartDir} ELSE {StartDir, BookDir}
    /\ wroteIn = "nowhere"
    /\ fileBefore = file
    /\ manual = FALSE
    /\ polls = 0
    /\ seen = "nothing"

\* download_file, string URL: one iteration of `for attempt in range(3)`
DirectAttempt ==
    /\ kind = "direct" /\ pc = "attempt" /\ attempt < MaxAttempts
    /\ \E o \in Outcomes :
        LET f1 == AfterStream(file, o)
            retry == o # "ok" /\ DirectRetryable(o) /\ attempt < RetryLimit
        IN  /\ log' = log \o <<Get("url", o)>>
                          \o (IF retry THEN <<Sleep("url", WaitTime(attempt))>> ELSE <<>>)
            /\ file' = IF o = "ok" \/ retry THEN f1 ELSE RemoveIfExists(f1)
            /\ attempt' = IF retry THEN attempt + 1 ELSE attempt
            /\ pc' = IF retry THEN "attempt" ELSE "done"
            /\ result' = IF o = "ok" THEN "true" ELSE IF retry THEN "none" ELSE "false"
            /\ wroteIn' = OpenedIn(wroteIn, o, download_dir)
    /\ UNCHANGED <<kind, fileBefore, manual, polls, seen, strategy, cands, candIdx, download_dir>>
    /\ UNCHANGED otherThanTransfer

\* download_file_ia: one iteration of the attempt loop of the current strategy,
\* with the move to the next strategy or the all-strategies-failed tail
IAAttempt ==
    /\ kind = "ia" /\ pc = "attempt" /\ attempt < MaxAttempts
    /\ \E io \in ItemOutcomes, o \in Outcomes :
        LET visit == attempt = 0
            itemFailed == visit /\ io # "ok"
            out == IF itemFailed THEN io ELSE o
            evItem == IF ~visit THEN <<>>
                      ELSE IF io = "ok" THEN <<Get("item", io), Sleep("item", HumanDelay)>>
                      ELSE <<Get("item", io)>>
            evGet == IF itemFailed THEN <<>> ELSE <<Get(Strategies[strategy], o)>>
            f1 == IF itemFailed THEN file ELSE AfterStream(file, o)
            retry == out # "ok" /\ IARetryable(out) /\ attempt < RetryLimit
            lastStrategy == strategy = Len(Strategies)
        IN  /\ log' = log \o evItem \o evGet
                          \o (IF retry THEN <<Sleep(Strategies[strategy], WaitTime(attempt))>>
                              ELSE <<>>)
            /\ wroteIn' = IF itemFailed THEN wroteIn
                          ELSE OpenedIn(wroteIn, o, download_dir)
            /\ IF out = "ok"
               THEN /\ file' = f1
                    /\ result' = "true"
                    /\ pc' = "done"
                    /\ UNCHANGED <<strategy, attempt>>
               ELSE IF retry
               THEN /\ file' = f1
                    /\ attempt' = attempt + 1
                    /\ UNCHANGED <<strategy, result, pc>>
               ELSE IF ~lastStrategy
               THEN /\ file' = f1
                    /\ strategy' = strategy + 1
                    /\ attempt' = 0
                    /\ UNCHANGED <<result, pc>>
               ELSE /\ file' = RemoveIfExists(f1)
                    /\ result' = "false"
                    /\ pc' = "done"
                    /\ UNCHANGED <<strategy, attempt>>
    /\ UNCHANGED <<kind, fileBefore, manual, polls, seen, cands, candIdx, download_dir>>
    /\ UNCHANGED otherThanTransfer

\* book_downloader.download_file: a single attempt
BDDownload ==
    /\ kind = "bd" /\ pc = "attempt"
    /\ \E o \in Outcomes :
        LET f1 == AfterStream(file, o)
        IN  /\ log' = log \o <<Get("url", o)>>
            /\ file' = IF o = "ok" THEN f1 ELSE RemoveIfExists(f1)
            /\ result' = IF o = "ok" THEN "true" ELSE "false"
            /\ wroteIn' = OpenedIn(wroteIn, o, cwd)
    /\ pc' = "done"
    /\ UNCHANGED <<kind, fileBefore, manual, polls, seen, strategy, attempt, cands, candIdx, download_dir>>
    /\ UNCHANGED otherThanTransfer

ChallengeDetected_StatusOnly(slow) == slow = "h403"

\* response.status_code == 403 or 'ddos-guard' in response.text.lower()
ChallengeDetected(slow) == slow \in {"h403", "ddos"}

\* download_file, needs_annas_handling without Playwright: steps 1 to 3
\* (book page, slow download page, collection of download_candidates)
AnnasResolve ==
    /\ kind = "annas" /\ pc = "resolve"
    /\ \E page \in {"exc", "no_link", "link"},
          slow \in {"exc", "h403", "ddos", "page"},
          n \in 0..MaxCandidates :
        LET stop1 == page # "link"
            stop2 == slow = "exc" \/ ChallengeDetected(slow)
            evs == <<Get("book_page", page)>>
                   \o (IF stop1 THEN <<>>
                       ELSE <<Sleep("slow_download", HumanDelay), Get("slow_download", slow)>>)
            found == IF stop1 \/ stop2 THEN 0 ELSE n
        IN  /\ log' = log \o evs
            /\ cands' = found
            /\ IF found = 0
               THEN /\ result' = "false"
                    /\ manual' = TRUE
                    /\ pc' = "done"
                    /\ candIdx' = 0
               ELSE /\ result' = "none"
                    /\ manual' = manual
                    /\ pc' = "candidate"
                    /\ candIdx' = 1
    /\ UNCHANGED <<kind, fileBefore, polls, seen, strategy, attempt, file, download_dir, wroteIn>>
    /\ UNCHANGED otherThanTransfer

Min(a, b) == IF a < b THEN a ELSE b

\* download_file, needs_annas_handling: one iteration of
\* `for candidate_url in download_candidates[:5]`, with the tail after the loop
AnnasCandidate ==
    /\ kind = "annas" /\ pc = "candidate"
    /\ \E o \in CandOutcomes :
        LET f1 == IF o = "ok" THEN "complete"
                  ELSE IF o = "stream_fail" THEN "partial"
                  ELSE file
            last == candIdx = Min(cands, CandidateLimit)
        IN  /\ log' = log \o <<Get("candidate", o)>>
            /\ file' = f1
            /\ wroteIn' = IF o \in {"ok", "stream_fail"} THEN cwd ELSE wroteIn
            /\ IF o = "ok"
               THEN /\ result' = "true"
                    /\ pc' = "done"
                    /\ UNCHANGED <<candIdx, manual>>
               ELSE IF last
               THEN /\ result' = "false"
                    /\ manual' = TRUE
                    /\ pc' = "done"
                    /\ UNCHANGED candIdx
               ELSE /\ candIdx' = candIdx + 1
                    /\ UNCHANGED <<result, pc, manual>>
    /\ UNCHANGED <<kind, fileBefore, polls, seen, strategy, attempt, cands, download_dir>>
    /\ UNCHANGED otherThanTransfer

\* for i in range(20)
PollLimit == 20

PollBreaks_RedirectOnly(saw) == saw = "redirected"

\* what ends the wait loop before its last iteration: the page URL no longer
\* holds 'annas-archive.org/slow_download' ("redirected"), a link to another
\* host whose text holds 'download', 'get' or 'click' is on the page
\* ("link"), or a call on the page raised ("exc"); "slow" is none of these
PollBreaks(saw) == saw \in {"redirected", "link", "exc"}

\* download_annas_archive_browser, steps 1 to 3: launch, book page, slow
\* download links, slow download page.  None of the failing exits prints
\* book_url.
BrowserOpen ==
    /\ kind = "browser" /\ pc = "open"
    /\ \E o \in {"launch_exc", "selector_timeout", "no_slow_links",
                  "slow_goto_exc", "slow_page"} :
        /\ log' = IF o = "launch_exc" THEN log
                  ELSE Append(log, Sleep("book_page", 2000))
        /\ pc' = IF o = "slow_page" THEN "poll" ELSE "done"
        /\ result' = IF o = "slow_page" THEN "none" ELSE "false"
    /\ UNCHANGED <<kind, fileBefore, manual, polls, seen, strategy, attempt,
                   file, cands, candIdx, download_dir, wroteIn>>
    /\ UNCHANGED otherThanTransfer

\* download_annas_archive_browser: one iteration of the wait loop
BrowserPoll ==
    /\ kind = "browser" /\ pc = "poll" /\ polls < PollLimit
    /\ \E saw \in {"slow", "redirected", "link", "exc"} :
        /\ log' = Append(log, Sleep("slow_download", 1000))
        /\ polls' = polls + 1
        /\ seen' = saw
        /\ pc' = IF PollBreaks(saw) \/ polls + 1 = PollLimit THEN "look" ELSE "poll"
    /\ UNCHANGED <<kind, fileBefore, manual, strategy, attempt, file, result,
                   cands, candIdx, download_dir, wroteIn>>
    /\ UNCHANGED otherThanTransfer

\* download_annas_archive_browser, step 5 to the end: the search for a
\* download link on the partner page or on the slow download page, the
\* download and download.save_as(filepath).  "busy": the page content holds
\* 'wait', 'queue' or 'busy'; "no_link": no link found; "exc": a call raised.
BrowserLook ==
    /\ kind = "browser" /\ pc = "look"
    /\ \E o \in {"busy", "no_link", "exc", "saved"} :
        /\ log' = Append(log, Sleep("partner", 1000))
        /\ file' = IF o = "saved" THEN "complete" ELSE file
        /\ wroteIn' = IF o = "saved" THEN download_dir ELSE wroteIn
        /\ result' = IF o = "saved" THEN "true" ELSE "false"
        /\ pc' = "done"
    /\ UNCHANGED <<kind, fileBefore, manual, polls, seen, strategy, attempt,
                   cands, candIdx, download_dir>>
    /\ UNCHANGED otherThanTransfer

(***************************************************************************)
(* Relevance ranker: calculate_relevance                                   *)
(***************************************************************************)

\* longest string drawn from Alphabet
MaxLen == 3

\* characters the enumerated strings are made of
Alphabet == {"a", "b", "A", " "}

\* characters str.strip() and str.split() treat as whitespace
Whitespace == {" ", "\t", "\n"}

UpperCase ==
    <<"A", "B", "C", "D", "E", "F", "G", "H", "I", "J", "K", "L", "M",
      "N", "O", "P", "Q", "R", "S", "T", "U", "V", "W", "X", "Y", "Z">>

LowerCase ==
    <<"a", "b", "c", "d", "e", "f", "g", "h", "i", "j", "k", "l", "m",
      "n", "o", "p", "q", "r", "s", "t", "u", "v", "w", "x", "y", "z">>

\* the lower-case form of every upper-case letter
LowerOf ==
    [c \in {UpperCase[i] : i \in 1..Len(UpperCase)} |->
        LowerCase[CHOOSE i \in 1..Len(UpperCase) : UpperCase[i] = c]]

\* str.lower() on one character
LowerChar(c) == IF c \in DOMAIN LowerOf THEN LowerOf[c] ELSE c

\* str.lower()
Lower(s) == [i \in 1..Len(s) |-> LowerChar(s[i])]

\* str.strip()
Strip(s) ==
    LET solid == {i \in 1..Len(s) : s[i] \notin Whitespace}
    IN  IF solid = {} THEN <<>>
        ELSE LET lo == CHOOSE i \in solid : \A j \in solid : i <= j
                 hi == CHOOSE i \in solid : \A j \in solid : j <= i
             IN  SubSeq(s, lo, hi)

\* t.startswith(q)
StartsWith(t, q) == Len(q) <= Len(t) /\ SubSeq(t, 1, Len(q)) = q

\* q in t
Contains(t, q) ==
    \E k \in 0..(Len(t) - Len(q)) : SubSeq(t, k + 1, k + Len(q)) = q

\* set(s.split()): the maximal runs of non-whitespace characters
Words(s) ==
    {SubSeq(s, i, j) : <<i, j>> \in
        {p \in (1..Len(s)) \X (1..Len(s)) :
            /\ p[1] <= p[2]
            /\ \A k \in p[1]..p[2] : s[k] \notin Whitespace
            /\ (p[1] = 1 \/ s[p[1] - 1] \in Whitespace)
            /\ (p[2] = Len(s) \/ s[p[2] + 1] \in Whitespace)}}

\* the 70 percent threshold is missing
calculate_relevance_NoThreshold(q0, t0) ==
    LET query_lower == Strip(Lower(q0))
        title_lower == Strip(Lower(t0))
    IN  IF query_lower = title_lower THEN 100
        ELSE IF StartsWith(title_lower, query_lower) THEN 90
        ELSE IF Contains(title_lower, query_lower) THEN 80
        ELSE LET query_words == Words(query_lower)
                 title_words == Words(title_lower)
             IN  IF query_words = {} THEN 0
                 ELSE (Cardinality(query_words \cap title_words) * 100)
                          \div Cardinality(query_words)

\* the guard on an empty token set comes before the three string rules
calculate_relevance_GuardFirst(q0, t0) ==
    LET query_lower == Strip(Lower(q0))
        title_lower == Strip(Lower(t0))
        query_words == Words(query_lower)
        title_words == Words(title_lower)
    IN  IF query_words = {} THEN 0
        ELSE IF query_lower = title_lower THEN 100
        ELSE IF StartsWith(title_lower, query_lower) THEN 90
        ELSE IF Contains(title_lower, query_lower) THEN 80
        ELSE LET pct == (Cardinality(query_words \cap title_words) * 100)
                            \div Cardinality(query_words)
             IN  IF pct >= 70 THEN pct ELSE 0

\* the first rule compares the raw query with the lower-cased title
calculate_relevance_RawCompare(q0, t0) ==
    LET query_lower == Strip(Lower(q0))
        title_lower == Strip(Lower(t0))
    IN  IF q0 = title_lower THEN 100
        ELSE IF StartsWith(title_lower, query_lower) THEN 90
        ELSE IF Contains(title_lower, query_lower) THEN 80
        ELSE LET query_words == Words(query_lower)
                 title_words == Words(title_lower)
             IN  IF query_words = {} THEN 0
                 ELSE LET pct == (Cardinality(query_words \cap title_words) * 100)
                                     \div Cardinality(query_words)
                      IN  IF pct >= 70 THEN pct ELSE 0

\* the starts-with rule is missing
calculate_relevance_NoPrefixRule(q0, t0) ==
    LET query_lower == Strip(Lower(q0))
        title_lower == Strip(Lower(t0))
    IN  IF query_lower = title_lower THEN 100
        ELSE IF Contains(title_lower, query_lower) THEN 80
        ELSE LET query_words == Words(query_lower)
                 title_words == Words(title_lower)
             IN  IF query_words = {} THEN 0
                 ELSE LET pct == (Cardinality(query_words \cap title_words) * 100)
                                     \div Cardinality(query_words)
                      IN  IF pct >= 70 THEN pct ELSE 0

\* calculate_relevance(query, title).  match_percentage is a float in the
\* code; since it is compared with the integer 70 and truncated by int(), its
\* integer part (pct) decides both the test and the value.
calculate_relevance(q0, t0) ==
    LET query_lower == Strip(Lower(q0))
        title_lower == Strip(Lower(t0))
    IN  IF query_lower = title_lower THEN 100
        ELSE IF StartsWith(title_lower, query_lower) THEN 90
        ELSE IF Contains(title_lower, query_lower) THEN 80
        ELSE LET query_words == Words(query_lower)
                 title_words == Words(title_lower)
             IN  IF query_words = {} THEN 0
                 ELSE LET pct == (Cardinality(query_words \cap title_words) * 100)
                                     \div Cardinality(query_words)
                      IN  IF pct >= 70 THEN pct ELSE 0

\* value of score before calculate_relevance has returned
Unscored == -1

RECURSIVE StringsOfLen(_)
StringsOfLen(n) ==
    IF n = 0 THEN {<<>>}
    ELSE {Append(s, c) : s \in StringsOfLen(n - 1), c \in Alphabet}

\* every string over Alphabet of at most MaxLen characters
Strings == UNION {StringsOfLen(n) : n \in 0..MaxLen}

\* "Pride and Prejudice"
PrideAndPrejudice ==
    <<"P", "r", "i", "d", "e", " ", "a", "n", "d", " ", "P", "r", "e", "j",
      "u", "d", "i", "c", "e">>

\* "Pride and Prejudice: Annotated Edition"
PrideAnnotated ==
    <<"P", "r", "i", "d", "e", " ", "a", "n", "d", " ", "P", "r", "e", "j",
      "u", "d", "i", "c", "e", ":", " ", "A", "n", "n", "o", "t", "a", "t",
      "e", "d", " ", "E", "d", "i", "t", "i", "o", "n">>

\* "Emma"
Emma ==
    <<"E", "m", "m", "a">>

\* "a b c d"
FourTokens ==
    <<"a", " ", "b", " ", "c", " ", "d">>

\* "d c b x"
ThreeOfFour ==
    <<"d", " ", "c", " ", "b", " ", "x">>

\* "a b c"
ThreeTokens ==
    <<"a", " ", "b", " ", "c">>

\* "a b c d e f g h i j"
TenTokens ==
    <<"a", " ", "b", " ", "c", " ", "d", " ", "e", " ", "f", " ", "g", " ",
      "h", " ", "i", " ", "j">>

\* "G f e d  c b a"
SevenOfTen ==
    <<"G", " ", "f", " ", "e", " ", "d", " ", " ", "c", " ", "b", " ", "a">>

\* longer strings that reach the token-overlap rule and the documented scenario
Samples ==
    {PrideAndPrejudice, PrideAnnotated, Emma, FourTokens, ThreeOfFour,
     ThreeTokens, TenTokens, SevenOfTen}

\* calculate_relevance has not been called
ScoreIdle ==
    /\ query = <<>>
    /\ title = <<>>
    /\ score = Unscored

\* the strings calculate_relevance is called with
ScoreStart ==
    /\ query \in Strings \cup Samples
    /\ title \in Strings \cup Samples
    /\ score = Unscored

\* one call of calculate_relevance(query, title)
ScoreTitle ==
    /\ score = Unscored
    /\ score' = calculate_relevance(query, title)
    /\ UNCHANGED <<query, title>>
    /\ UNCHANGED otherThanScore

(***************************************************************************)
(* Book search and ranking: handle_book_download                           *)
(***************************************************************************)

\* scored_results[:15]
TopLimit == 15

\* most results one source returns for a query
MaxPerAdapter == 3

\* the sources in the order handle_book_download concatenates them
BookSources ==
    <<"Anna's Archive", "Gutenberg", "Internet Archive",
      "Standard Ebooks", "Feedbooks", "123FreeBook">>

\* what makes a search_* function take its except branch
AdapterFailures == {"timeout", "conn", "http5xx", "parse"}

\* "a b c d e"
FourPlus ==
    <<"a", " ", "b", " ", "c", " ", "d", " ", "e">>

\* "x y"
Unrelated ==
    <<"x", " ", "y">>

\* "e a b c d"
Embedded ==
    <<"e", " ", "a", " ", "b", " ", "c", " ", "d">>

\* "D c b a"
Reordered ==
    <<"D", " ", "c", " ", "b", " ", "a">>

\* "A B C D"
UpperFour ==
    <<"A", " ", "B", " ", "C", " ", "D">>

\* titles the sources answer with
TitlePool ==
    <<FourTokens, FourPlus, Embedded, ThreeOfFour, Reordered, UpperFour, Unrelated>>

\* the [:15] / [:10] slices the search_* functions take of the raw entries
\* (search_gutendex takes all of them)
AdapterCap(i, raw) ==
    IF i = 1 THEN 15
    ELSE IF i = 2 THEN Len(raw)
    ELSE 10

\* the result list source i builds from a response of n entries
AdapterResults(i, n) ==
    LET raw == [k \in 1..n |->
                   [source |-> BookSources[i],
                    title |-> TitlePool[((i + k - 2) % Len(TitlePool)) + 1],
                    item |-> k]]
    IN  SubSeq(raw, 1, Min(Len(raw), AdapterCap(i, raw)))

\* result['relevance'] = score
WithRelevance(q, r) ==
    [source |-> r.source, title |-> r.title, item |-> r.item,
     relevance |-> calculate_relevance(q, r.title)]

RECURSIVE ScoredResults(_, _)
\* the loop building scored_results: only results with score > 0 are kept
ScoredResults(q, all) ==
    IF all = <<>> THEN <<>>
    ELSE LET rest == ScoredResults(q, SubSeq(all, 1, Len(all) - 1))
             r == WithRelevance(q, all[Len(all)])
         IN  IF r.relevance > 0 THEN Append(rest, r) ELSE rest

\* number of entries of s whose relevance is at least v
CountAtLeast(s, v) == Cardinality({i \in 1..Len(s) : s[i].relevance >= v})

\* number of entries of s whose relevance is above v
CountAbove(s, v) == Cardinality({i \in 1..Len(s) : s[i].relevance > v})

InsertByRelevance_BeforeTies(sorted, r) ==
    LET k == CountAbove(sorted, r.relevance)
    IN  SubSeq(sorted, 1, k) \o <<r>> \o SubSeq(sorted, k + 1, Len(sorted))

\* place of one element in list.sort(key=relevance, reverse=True): the sort
\* is stable, an element goes behind the earlier ones of equal relevance
InsertByRelevance(sorted, r) ==
    LET k == CountAtLeast(sorted, r.relevance)
    IN  SubSeq(sorted, 1, k) \o <<r>> \o SubSeq(sorted, k + 1, Len(sorted))

RECURSIVE SortByRelevance(_)
\* scored_results.sort(key=lambda x: x['relevance'], reverse=True)
SortByRelevance(s) ==
    IF s = <<>> THEN <<>>
    ELSE InsertByRelevance(SortByRelevance(SubSeq(s, 1, Len(s) - 1)), s[Len(s)])

\* scored_results[:15]
TopResults(s) == SubSeq(s, 1, Min(Len(s), TopLimit))

\* the search terms handle_book_download is called with
BookQueries == {FourTokens}

\* handle_book_download has not been called
BookIdle ==
    /\ book_title = <<>>
    /\ bookStep = 0
    /\ all_results = <<>>
    /\ top_results = <<>>
    /\ warned = {}
    /\ bookOutcome = "idle"

BookStart ==
    /\ book_title \in BookQueries
    /\ bookStep = 1
    /\ all_results = <<>>
    /\ top_results = <<>>
    /\ warned = {}
    /\ bookOutcome = "searching"

\* handle_book_download: the call of the next search_* function; after the
\* last one, the scoring, the sort and the truncation
SearchBookSource ==
    /\ bookOutcome = "searching"
    /\ bookStep \in 1..Len(BookSources)
    /\ \E failure \in {"none"} \cup AdapterFailures,
          n \in 0..MaxPerAdapter :
        LET failed == failure # "none"
            returned == IF failed THEN <<>> ELSE AdapterResults(bookStep, n)
            all == all_results \o returned
            top == TopResults(SortByRelevance(ScoredResults(book_title, all)))
        IN  /\ failed => n = 0
            /\ warned' = IF failed THEN warned \cup {BookSources[bookStep]} ELSE warned
            /\ all_results' = all
            /\ bookStep' = bookStep + 1
            /\ IF bookStep < Len(BookSources)
               THEN /\ top_results' = <<>>
                    /\ bookOutcome' = "searching"
               ELSE IF all = <<>>
               THEN /\ top_results' = <<>>
                    /\ bookOutcome' = "no_results"
               ELSE /\ top_results' = top
                    /\ bookOutcome' = IF top_results' = <<>> THEN "no_relevant" ELSE "offered"
    /\ UNCHANGED book_title
    /\ UNCHANGED otherThanBook

(***************************************************************************)
(* Manga search: search_manga_site and search_all_manga_sites              *)
(***************************************************************************)

\* the names of MANGA_SITES, in list order
MANGA_SITES ==
    <<"Asura Scans", "Chapmanganato", "InManga", "LHTranslation", "LSComic",
      "Manga Monks", "MangaBat", "MangaDex", "Mangakakalot.com",
      "Mangakakalot.tv", "Manganato", "Manganelo.com", "Manganelo.tv",
      "MangaPanda", "NatoManga", "ReadMangaBat", "TCB Scans (.com)",
      "TCB Scans (.net)", "TCB Scans (.org)">>

\* the sites whose url matches one of the branches of search_manga_site
SearchableSites ==
    {"MangaDex", "Manganato", "Mangakakalot.com", "NatoManga", "Chapmanganato"}

\* limit=10 / items[:10]
MangaCap == 10

\* what a site can do to a search request.  "ok": status 200 and n entries
\* parsed; "http5xx": a status other than 200; "parse": an exception raised
\* after n entries were appended; "skipped": no branch matches the site
SiteAnswers ==
    [what : {"ok", "parse"}, n : 0..MaxPerAdapter]
        \cup [what : {"timeout", "conn", "http5xx"}, n : {0}]

\* the entries appended to results before the function returns
MangaEntries(site, n) ==
    [k \in 1..Min(n, MangaCap) |->
        [title |-> TitlePool[((k - 1) % Len(TitlePool)) + 1],
         site |-> site, item |-> k]]

\* search_manga_site(site, query): the pair (results, error_msg) it returns
search_manga_site(site, a) ==
    IF site \notin SearchableSites
    THEN [results |-> <<>>, error |-> "none"]
    ELSE IF a.what = "ok" THEN [results |-> MangaEntries(site, a.n), error |-> "none"]
    ELSE IF a.what = "timeout" THEN [results |-> <<>>, error |-> "timeout"]
    ELSE IF a.what = "conn" THEN [results |-> <<>>, error |-> "blocked/unreachable"]
    ELSE IF a.what = "http5xx" THEN [results |-> <<>>, error |-> "none"]
    ELSE [results |-> MangaEntries(site, a.n), error |-> "error"]

NoCall == [site |-> "", what |-> "none", results |-> <<>>, error |-> "none"]

\* search_all_manga_sites has not been called
MangaIdle ==
    /\ siteIdx = 0
    /\ manga_results = <<>>
    /\ success_count = 0
    /\ failed_count = 0
    /\ blocked_sites = <<>>
    /\ lastCall = NoCall

MangaStart ==
    /\ siteIdx = 1
    /\ manga_results = <<>>
    /\ success_count = 0
    /\ failed_count = 0
    /\ blocked_sites = <<>>
    /\ lastCall = NoCall

\* search_all_manga_sites: one iteration of `for site in MANGA_SITES`
SearchNextMangaSite ==
    /\ siteIdx \in 1..Len(MANGA_SITES)
    /\ \E a \in SiteAnswers :
        LET site == MANGA_SITES[siteIdx]
            searched == site \in SearchableSites
            ret == search_manga_site(site, a)
        IN  /\ searched \/ (a.what = "ok" /\ a.n = 0)
            /\ lastCall' = [site |-> site,
                            what |-> IF searched THEN a.what ELSE "skipped",
                            results |-> ret.results, error |-> ret.error]
            /\ IF ret.error # "none"
               THEN /\ failed_count' = failed_count + 1
                    /\ blocked_sites' = Append(blocked_sites, <<site, ret.error>>)
                    /\ UNCHANGED <<success_count, manga_results>>
               ELSE IF ret.results # <<>>
               THEN /\ success_count' = success_count + 1
                    /\ manga_results' = manga_results \o ret.results
                    /\ UNCHANGED <<failed_count, blocked_sites>>
               ELSE UNCHANGED <<success_count, manga_results, failed_count, blocked_sites>>
    /\ siteIdx' = siteIdx + 1
    /\ UNCHANGED otherThanManga

(***************************************************************************)
(* Artifact normalizer: deduplicate_chapters and cleanup_non_english_manga *)
(***************************************************************************)

\* most files a directory starts with
MaxDirSize == 3

\* most normalizer calls made on one directory
MaxRuns == 2

\* the file names used, each a sequence of characters
FileNames ==
    [
     \* "S - Chapter 10.cbz": a chapter file
     Ch10 |->
        <<"S", " ", "-", " ", "C", "h", "a", "p", "t", "e", "r", " ",
          "1", "0", ".", "c", "b", "z">>,
     \* "S - Chapter 10.5.cbz": a half chapter of the same series
     Ch10Half |->
        <<"S", " ", "-", " ", "C", "h", "a", "p", "t", "e", "r", " ",
          "1", "0", ".", "5", ".", "c", "b", "z">>,
     \* "S - Chapter 10 v2.cbz": a second release of chapter 10
     Ch10v2 |->
        <<"S", " ", "-", " ", "C", "h", "a", "p", "t", "e", "r", " ",
          "1", "0", " ", "v", "2", ".", "c", "b", "z">>,
     \* "S - chapter 10.cbz": chapter 10 again, as long as Ch10, in lower case
     Ch10Lower |->
        <<"S", " ", "-", " ", "c", "h", "a", "p", "t", "e", "r", " ",
          "1", "0", ".", "c", "b", "z">>,
     \* "S - Chapter 11.cbz": another chapter
     Ch11 |->
        <<"S", " ", "-", " ", "C", "h", "a", "p", "t", "e", "r", " ",
          "1", "1", ".", "c", "b", "z">>,
     \* "T 2 - Chapter 10.cbz": a volume number before the dash
     Vol2Ch10 |->
        <<"T", " ", "2", " ", "-", " ", "C", "h", "a", "p", "t", "e",
          "r", " ", "1", "0", ".", "c", "b", "z">>,
     \* "notes.cbz": an archive that is no chapter
     Notes |->
        <<"n", "o", "t", "e", "s", ".", "c", "b", "z">>,
     \* "Chapter 10.cbz": nothing before the word Chapter
     BareChapter |->
        <<"C", "h", "a", "p", "t", "e", "r", " ", "1", "0", ".", "c",
          "b", "z">>,
     \* "S - Chapter 10.txt": no .cbz archive
     Ch10Text |->
        <<"S", " ", "-", " ", "C", "h", "a", "p", "t", "e", "r", " ",
          "1", "0", ".", "t", "x", "t">>,
     \* "Solo Leveling - Chapter 0001.cbz": a chapter with no suffix
     Solo1 |->
        <<"S", "o", "l", "o", " ", "L", "e", "v", "e", "l", "i", "n",
          "g", " ", "-", " ", "C", "h", "a", "p", "t", "e", "r", " ",
          "0", "0", "0", "1", ".", "c", "b", "z">>,
     \* "Solo Leveling - Chapter 0001 Spanish.cbz": with a language name
     Solo1Spanish |->
        <<"S", "o", "l", "o", " ", "L", "e", "v", "e", "l", "i", "n",
          "g", " ", "-", " ", "C", "h", "a", "p", "t", "e", "r", " ",
          "0", "0", "0", "1", " ", "S", "p", "a", "n", "i", "s", "h",
          ".", "c", "b", "z">>,
     \* "Solo Leveling - Chapter 0001 Extra.cbz": with a suffix that names no language
     Solo1Extra |->
        <<"S", "o", "l", "o", " ", "L", "e", "v", "e", "l", "i", "n",
          "g", " ", "-", " ", "C", "h", "a", "p", "t", "e", "r", " ",
          "0", "0", "0", "1", " ", "E", "x", "t", "r", "a", ".", "c",
          "b", "z">>,
     \* "Solo Leveling (es) - Chapter 0002.cbz": with a parenthesized language code
     Solo2Es |->
        <<"S", "o", "l", "o", " ", "L", "e", "v", "e", "l", "i", "n",
          "g", " ", "(", "e", "s", ")", " ", "-", " ", "C", "h", "a",
          "p", "t", "e", "r", " ", "0", "0", "0", "2", ".", "c", "b",
          "z">>]

\* the file names directories are drawn from
FilePool == {FileNames[k] : k \in DOMAIN FileNames}

Digits == {"0", "1", "2", "3", "4", "5", "6", "7", "8", "9"}

\* the characters of the file names, in code point order
CodeOrder ==
    <<" ", "(", ")", "-", ".",
      "0", "1", "2", "3", "4", "5", "6", "7", "8", "9",
      "A", "B", "C", "D", "E", "F", "G", "H", "I", "J", "K", "L", "M",
      "N", "O", "P", "Q", "R", "S", "T", "U", "V", "W", "X", "Y", "Z",
      "[", "]", "_",
      "a", "b", "c", "d", "e", "f", "g", "h", "i", "j", "k", "l", "m",
      "n", "o", "p", "q", "r", "s", "t", "u", "v", "w", "x", "y", "z">>

\* rank of a character in the order Python compares strings by
CodeOf ==
    [c \in {CodeOrder[i] : i \in 1..Len(CodeOrder)} |->
        CHOOSE i \in 1..Len(CodeOrder) : CodeOrder[i] = c]

\* least element of a non-empty set of integers
SetMin(S) == CHOOSE i \in S : \A j \in S : i <= j

\* a < b on Python strings
StrLess(a, b) ==
    \E k \in 1..(Min(Len(a), Len(b)) + 1) :
        /\ \A i \in 1..(k - 1) : a[i] = b[i]
        /\ \/ k > Len(a) /\ k <= Len(b)
           \/ k <= Len(a) /\ k <= Len(b) /\ CodeOf[a[k]] < CodeOf[b[k]]

\* t.endswith(q)
EndsWith(t, q) ==
    Len(q) <= Len(t) /\ SubSeq(t, Len(t) - Len(q) + 1, Len(t)) = q

DotCbz == <<".", "c", "b", "z">>

\* everything in the directory, whatever its name
GlobCbz_AllFiles(d) == d

\* glob.glob("*.cbz"): names ending in .cbz that do not start with a dot
GlobCbz(d) == {f \in d : EndsWith(f, DotCbz) /\ f[1] # "."}

RECURSIVE SkipAll(_, _, _)
\* first position from p on whose character is not in cs, Len(s) + 1 if none
SkipAll(s, p, cs) ==
    IF p > Len(s) \/ s[p] \notin cs THEN p ELSE SkipAll(s, p + 1, cs)

\* the literal lit (given in lower case) stands at position p, in any case
LiteralAt(s, p, lit) ==
    /\ p + Len(lit) - 1 <= Len(s)
    /\ Lower(SubSeq(s, p, p + Len(lit) - 1)) = lit

\* `(?:\d+\s+-\s+)?` at position a, the volume digits ending just before b:
\* the position after the group, a when the group is skipped
VolumeEnd(s, a, b) ==
    LET c == SkipAll(s, b, Whitespace)
        d == SkipAll(s, c + 1, Whitespace)
    IN  IF b > a /\ c > b /\ c <= Len(s) /\ s[c] = "-" /\ d > c + 1
        THEN d ELSE a

\* `Chapter\s+(\d+)` at position w, the white space after the word ending
\* just before g: the first and last position of group 2, or <<>>
ChapterAt(s, w, g) ==
    IF /\ LiteralAt(s, w, <<"c", "h", "a", "p", "t", "e", "r">>)
       /\ g > w + 7
       /\ SkipAll(s, g, Digits) > g
    THEN <<g, SkipAll(s, g, Digits) - 1>>
    ELSE <<>>

\* the tail of the pattern at position p, its leading white space ending
\* just before a and the optional volume group just before w
TailFrom(s, p, a, w) ==
    IF a > p THEN ChapterAt(s, w, SkipAll(s, w + 7, Whitespace)) ELSE <<>>

\* `\s+(?:\d+\s+-\s+)?Chapter\s+(\d+)` matched at position p: the first and
\* last position of group 2, or <<>> when there is no match.  Every
\* repetition is followed by a character outside its class, so each takes
\* its whole run.
TailAt(s, p) ==
    TailFrom(s, p, SkipAll(s, p, Whitespace),
        VolumeEnd(s, SkipAll(s, p, Whitespace),
            SkipAll(s, SkipAll(s, p, Whitespace), Digits)))

\* what series_chapter_pattern.search returns when nothing matches
NoMatch == [group1 |-> <<>>, group2 |-> <<>>]

\* the lengths group 1 can have: the rest of the pattern follows, and `.`
\* matches no newline
GroupOneLengths(s) ==
    {n \in 1..Len(s) :
        /\ TailAt(s, n + 1) # <<>>
        /\ \A i \in 1..n : s[i] # "\n"}

\* the match whose group 1 is the shortest of the lengths ns
ShortestMatch(s, ns) ==
    IF ns = {} THEN NoMatch
    ELSE [group1 |-> SubSeq(s, 1, SetMin(ns)),
          group2 |-> SubSeq(s, TailAt(s, SetMin(ns) + 1)[1],
                               TailAt(s, SetMin(ns) + 1)[2])]

\* series_chapter_pattern.search(s) for
\* ^(.+?)\s+(?:\d+\s+-\s+)?Chapter\s+(\d+) with re.IGNORECASE: group 1 is
\* the shortest prefix the rest of the pattern can follow
series_chapter_pattern(s) == ShortestMatch(s, GroupOneLengths(s))

\* key = (series_name, chapter_num) of every matching file name of the pool
KeyOf ==
    [f \in {x \in FilePool : series_chapter_pattern(x) # NoMatch} |->
        <<Strip(series_chapter_pattern(f).group1),
          series_chapter_pattern(f).group2>>]

\* chapters_map: the globbed files that match, grouped by key
ChaptersMap(cbz_files) ==
    {{g \in cbz_files \cap DOMAIN KeyOf : KeyOf[g] = KeyOf[f]} :
        f \in cbz_files \cap DOMAIN KeyOf}

\* ordering by name alone
SortKeyLess_NameOnly(x, y) == StrLess(x, y)

\* key=lambda x: (len(x), x)
SortKeyLess(x, y) == Len(x) < Len(y) \/ (Len(x) = Len(y) /\ StrLess(x, y))

RECURSIVE SortFiles(_)
\* files.sort(key=lambda x: (len(x), x))
SortFiles(files) ==
    IF files = {} THEN <<>>
    ELSE LET first == CHOOSE x \in files :
                          \A y \in files \ {x} : SortKeyLess(x, y)
         IN  <<first>> \o SortFiles(files \ {first})

\* only the first duplicate
DuplicateFiles_FirstOnly(files) == {files[2]}

\* duplicate_files = files[1:]
DuplicateFiles(files) == {files[i] : i \in 2..Len(files)}

Removed_AbortsOnFailure(files, locked) ==
    IF files \cap locked # {} THEN {} ELSE files

\* os.remove on each file of a set: the files that are gone afterwards
Removed(files, locked) == files \ locked

\* deduplicate_chapters() on a directory d in which os.remove fails on the
\* files of locked: the directory afterwards and the two counts returned
deduplicate_chapters(d, locked) ==
    LET chapters_map == ChaptersMap(GlobCbz(d))
        gone == Removed(
            UNION {DuplicateFiles(SortFiles(files)) :
                      files \in {x \in chapters_map : Cardinality(x) > 1}},
            locked)
    IN  [dir |-> d \ gone,
         kept_count |-> Cardinality(chapters_map),
         removed_count |-> Cardinality(gone)]

\* the language codes of non_english_patterns (both the parenthesized and the
\* bracketed list; "pt-br" is in the parenthesized list only)
LanguageCodes ==
    {<<"e", "s">>, <<"j", "a">>, <<"j", "p">>, <<"p", "t">>,
     <<"f", "r">>, <<"d", "e">>, <<"r", "u">>, <<"z", "h">>,
     <<"c", "n">>, <<"t", "r">>, <<"a", "r">>, <<"i", "t">>,
     <<"k", "o">>, <<"k", "r">>, <<"p", "l">>, <<"n", "l">>,
     <<"s", "v">>, <<"v", "i">>, <<"t", "h">>, <<"i", "d">>}

\* the language names of non_english_patterns that are written in ASCII; the
\* names in other scripts cannot occur in a name made of CodeOrder characters
LanguageNames ==
    {<<"s", "p", "a", "n", "i", "s", "h">>,
     <<"j", "a", "p", "a", "n", "e", "s", "e">>,
     <<"p", "o", "r", "t", "u", "g", "u", "e", "s", "e">>,
     <<"f", "r", "e", "n", "c", "h">>,
     <<"g", "e", "r", "m", "a", "n">>,
     <<"d", "e", "u", "t", "s", "c", "h">>,
     <<"r", "u", "s", "s", "i", "a", "n">>,
     <<"c", "h", "i", "n", "e", "s", "e">>,
     <<"t", "u", "r", "k", "i", "s", "h">>,
     <<"a", "r", "a", "b", "i", "c">>,
     <<"i", "t", "a", "l", "i", "a", "n">>,
     <<"i", "t", "a", "l", "i", "a", "n", "o">>,
     <<"k", "o", "r", "e", "a", "n">>}

\* \w on the characters of CodeOrder
WordChars ==
    {UpperCase[i] : i \in 1..Len(UpperCase)} \cup
    {LowerCase[i] : i \in 1..Len(LowerCase)} \cup Digits \cup {"_"}

\* `\bname\b` at position k: the name, with no word character before or
\* after it
WordAt(s, k, name) ==
    /\ LiteralAt(s, k, name)
    /\ (k = 1 \/ s[k - 1] \notin WordChars)
    /\ (k + Len(name) > Len(s) \/ s[k + Len(name)] \notin WordChars)

\* combined_pattern.search(s) of downloader.py finds a match
combined_pattern(s) ==
    \E k \in 1..Len(s) :
        \/ \E code \in LanguageCodes \cup {<<"p", "t", "-", "b", "r">>} :
               LiteralAt(s, k, <<"(">> \o code \o <<")">>)
        \/ \E code \in LanguageCodes :
               LiteralAt(s, k, <<"[">> \o code \o <<"]">>)
        \/ \E name \in LanguageNames : WordAt(s, k, name)

\* non_english_pattern.search(s) of manga_helper.py finds a match:
\* `- Chapter \d{4} .+\.cbz$` with re.IGNORECASE; "- Chapter " has 10
\* characters
non_english_pattern(s) ==
    \E k \in 1..Len(s) :
        /\ LiteralAt(s, k,
               <<"-", " ", "c", "h", "a", "p", "t", "e", "r", " ">>)
        /\ k + 14 <= Len(s) - Len(DotCbz) - 1
        /\ \A i \in 0..3 : s[k + 10 + i] \in Digits
        /\ s[k + 14] = " "
        /\ \A i \in (k + 15)..(Len(s) - Len(DotCbz)) : s[i] # "\n"
        /\ LiteralAt(s, Len(s) - Len(DotCbz) + 1, DotCbz)

\* the names of the pool that combined_pattern marks as non-English
MarkedByDownloader == {f \in FilePool : combined_pattern(f)}

\* the names of the pool that non_english_pattern marks as non-English
MarkedByHelper == {f \in FilePool : non_english_pattern(f)}

\* the classification and removal loop of a cleanup that marks the files of
\* marked: the directory afterwards, len(english_files) and removed_count
Cleanup(d, locked, marked) ==
    [dir |-> d \ Removed(GlobCbz(d) \cap marked, locked),
     kept_count |-> Cardinality(GlobCbz(d) \ marked),
     removed_count |-> Cardinality(Removed(GlobCbz(d) \cap marked, locked))]

\* cleanup_non_english_manga() of downloader.py on a directory d in which
\* os.remove fails on the files of locked
cleanup_non_english_manga(d, locked) == Cleanup(d, locked, MarkedByDownloader)

\* cleanup_non_english_manga() of manga_helper.py
helper_cleanup_non_english_manga(d, locked) ==
    Cleanup(d, locked, MarkedByHelper)

\* the normalizer is not in use
NormIdle ==
    /\ normPc = "idle"
    /\ dir = {}
    /\ undeletable = {}
    /\ runs = <<>>

\* a directory of at most MaxDirSize files, at most one of which cannot be
\* removed, before any normalizer call
NormStart ==
    /\ normPc = "ready"
    /\ dir \in {d \in SUBSET FilePool : Cardinality(d) <= MaxDirSize}
    /\ undeletable \in {u \in SUBSET dir : Cardinality(u) <= 1}
    /\ runs = <<>>

\* the effect of a normalizer call on the directory before that returned r
Normalized(op, before, r) ==
    /\ dir' = r.dir
    /\ runs' = Append(runs,
           [op |-> op, before |-> before, after |-> r.dir,
            kept_count |-> r.kept_count, removed_count |-> r.removed_count])

\* one call of deduplicate_chapters()
RunDeduplicate ==
    /\ normPc = "ready"
    /\ Len(runs) < MaxRuns
    /\ Normalized("deduplicate", dir, deduplicate_chapters(dir, undeletable))
    /\ UNCHANGED <<normPc, undeletable>>
    /\ UNCHANGED otherThanNorm

\* one call of downloader.py's cleanup_non_english_manga()
RunCleanup ==
    /\ normPc = "ready"
    /\ Len(runs) < MaxRuns
    /\ Normalized("cleanup", dir,
           cleanup_non_english_manga(dir, undeletable))
    /\ UNCHANGED <<normPc, undeletable>>
    /\ UNCHANGED otherThanNorm

\* one call of manga_helper.py's cleanup_non_english_manga()
RunHelperCleanup ==
    /\ normPc = "ready"
    /\ Len(runs) < MaxRuns
    /\ Normalized("helper_cleanup", dir,
           helper_cleanup_non_english_manga(dir, undeletable))
    /\ UNCHANGED <<normPc, undeletable>>
    /\ UNCHANGED otherThanNorm

(***************************************************************************)
(* Chapter fetch: download_manga of downloader.py and of manga_helper.py   *)
(***************************************************************************)

\* a download_dir that is given
DestDir == "/start/series"

\* None, or an empty string: what `if x:` takes as absent
Absent == ""

\* the arguments download_manga is called with; manga_helper.py's has no
\* download_dir
Calls ==
    [url : {Absent, "https://mangadex.org/title/x"},
     chapters : {Absent, "1-10"},
     bundle : BOOLEAN,
     language : {Absent, "es"},
     english_only : BOOLEAN,
     download_dir : {Absent, DestDir}]

\* what the child may have written when it ends
ChildOutputs ==
    {{}, {FileNames.Ch10, FileNames.Ch10v2}, {FileNames.Ch10, FileNames.Ch10Half}, {FileNames.Solo1, FileNames.Solo1Spanish}}

\* download_manga is not in use
FetchIdle ==
    /\ fetchPc = "idle"
    /\ impl = "none"
    /\ args = [url |-> Absent, chapters |-> Absent, bundle |-> FALSE,
               language |-> Absent, english_only |-> FALSE,
               download_dir |-> Absent]
    /\ cwd = StartDir
    /\ original_dir = Absent
    /\ cmd = <<>>
    /\ childExit = "none"
    /\ childWrote = {}

\* a call of one of the two download_manga functions is about to be made
FetchStart ==
    /\ fetchPc = "call"
    /\ impl \in {"downloader", "helper"}
    /\ args \in Calls
    /\ impl = "helper" => args.download_dir = Absent
    /\ cwd = StartDir
    /\ original_dir = Absent
    /\ cmd = <<>>
    /\ childExit = "none"
    /\ childWrote = {}

\* cmd as downloader.py builds it, from manga_downloader_path on
DownloaderCmd(a) ==
    <<"/app/manga-downloader">>
        \o (IF a.english_only THEN <<"--language", "en">>
            ELSE IF a.language # Absent THEN <<"--language", a.language>>
            ELSE <<>>)
        \o (IF a.bundle THEN <<"--bundle">> ELSE <<>>)
        \o (IF a.url # Absent THEN <<a.url>> ELSE <<>>)
        \o (IF a.chapters # Absent THEN <<a.chapters>> ELSE <<>>)

\* cmd as manga_helper.py builds it
HelperCmd(a) ==
    <<"./manga-downloader">>
        \o (IF a.url # Absent THEN <<a.url>> ELSE <<>>)
        \o (IF a.chapters # Absent THEN <<a.chapters>> ELSE <<>>)
        \o (IF a.bundle THEN <<"--bundle">> ELSE <<>>)
        \o (IF a.language # Absent /\ ~a.english_only
            THEN <<"--language", a.language>> ELSE <<>>)

\* the directory is left where the child ran
Restored_Stays(dest, saved, current) == current

\* `if download_dir: os.chdir(original_dir)`: the working directory after it
Restored(dest, saved, current) ==
    IF dest # Absent THEN saved ELSE current

\* downloader.py's download_manga from its entry to the start of the child:
\* os.makedirs or os.chdir may raise, and then nothing else is done
DownloadMangaEnter ==
    /\ fetchPc = "call"
    /\ impl = "downloader"
    /\ original_dir' = cwd
    /\ \E entered \in BOOLEAN :
           /\ ~entered => args.download_dir # Absent
           /\ IF entered
              THEN /\ cwd' = IF args.download_dir # Absent
                             THEN args.download_dir ELSE cwd
                   /\ cmd' = DownloaderCmd(args)
                   /\ fetchPc' = "child"
              ELSE /\ fetchPc' = "raised"
                   /\ UNCHANGED <<cwd, cmd>>
    /\ UNCHANGED <<impl, args, childExit, childWrote, dir, runs>>
    /\ UNCHANGED otherThanFetch

\* downloader.py's download_manga from the end of the child to its own end:
\* the check of the exit code, deduplicate_chapters() after exit code 0
\* (which an exception may cut short), the two except clauses with their
\* sys.exit(1), and the finally clause
DownloadMangaChildDone ==
    /\ fetchPc = "child"
    /\ impl = "downloader"
    /\ \E exit \in {"ok", "nonzero", "missing"}, wrote \in ChildOutputs,
          interrupted \in BOOLEAN :
           /\ exit = "missing" => wrote = {}
           /\ interrupted => exit = "ok"
           /\ childExit' = exit
           /\ childWrote' = wrote
           /\ IF exit = "ok" /\ ~interrupted
              THEN /\ Normalized("deduplicate", dir \cup wrote,
                          deduplicate_chapters(dir \cup wrote, undeletable))
                   /\ fetchPc' = "returned"
              ELSE /\ dir' = dir \cup wrote
                   /\ runs' = runs
                   /\ fetchPc' = IF interrupted THEN "raised" ELSE "exited"
    /\ cwd' = Restored(args.download_dir, original_dir, cwd)
    /\ UNCHANGED <<impl, args, original_dir, cmd>>
    /\ UNCHANGED otherThanFetch

\* manga_helper.py's download_manga from its entry to the start of the child
HelperEnter ==
    /\ fetchPc = "call"
    /\ impl = "helper"
    /\ cmd' = HelperCmd(args)
    /\ fetchPc' = "child"
    /\ UNCHANGED <<impl, args, cwd, original_dir, childExit, childWrote, dir, runs>>
    /\ UNCHANGED otherThanFetch

\* manga_helper.py's download_manga from the end of the child to its own
\* end: cleanup_non_english_manga() after exit code 0 when english_only
HelperChildDone ==
    /\ fetchPc = "child"
    /\ impl = "helper"
    /\ \E exit \in {"ok", "nonzero", "missing"}, wrote \in ChildOutputs :
           /\ exit = "missing" => wrote = {}
           /\ childExit' = exit
           /\ childWrote' = wrote
           /\ IF exit = "ok" /\ args.english_only
              THEN Normalized("helper_cleanup", dir \cup wrote,
                       helper_cleanup_non_english_manga(
                           dir \cup wrote, undeletable))
              ELSE /\ dir' = dir \cup wrote
                   /\ runs' = runs
           /\ fetchPc' = IF exit = "ok" THEN "returned" ELSE "exited"
    /\ UNCHANGED <<impl, args, cwd, original_dir, cmd>>
    /\ UNCHANGED otherThanFetch

(***************************************************************************)
(* Resolver: get_download_links and the local file name of a transfer      *)
(***************************************************************************)

\* longest title drawn character by character
MaxTitleLen == 3

\* URLs and server file names a transfer is called with
SampleNames ==
    [
     \* "h/b.pdf": a URL that ends in .pdf
     PdfUrl |->
        <<"h", "/", "b", ".", "p", "d", "f">>,
     \* "h/b.PDF": the same in upper case
     UpperPdf |->
        <<"h", "/", "b", ".", "P", "D", "F">>,
     \* "h/b": no extension
     NoExt |->
        <<"h", "/", "b">>,
     \* "h/b.epub?f=a.txt": an extension in the path and another in the query
     QueryExt |->
        <<"h", "/", "b", ".", "e", "p", "u", "b", "?", "f", "=", "a",
          ".", "t", "x", "t">>,
     \* "h/b?f=a.pdf": an extension in the query only
     QueryOnly |->
        <<"h", "/", "b", "?", "f", "=", "a", ".", "p", "d", "f">>,
     \* "h/b.epub.images": Gutenberg's .epub.images
     Images |->
        <<"h", "/", "b", ".", "e", "p", "u", "b", ".", "i", "m", "a",
          "g", "e", "s">>,
     \* "h.c/b": a dot in an earlier component only
     HostDot |->
        <<"h", ".", "c", "/", "b">>,
     \* "h/.pdf": a last component that is all extension
     LeadingDot |->
        <<"h", "/", ".", "p", "d", "f">>,
     \* "h/b.azw3": an allow-listed extension with a digit
     Azw3 |->
        <<"h", "/", "b", ".", "a", "z", "w", "3">>,
     \* "h/b.pdf#p": a fragment after the extension
     Fragment |->
        <<"h", "/", "b", ".", "p", "d", "f", "#", "p">>,
     \* "b_djvu.txt": a server file name
     Djvu |->
        <<"b", "_", "d", "j", "v", "u", ".", "t", "x", "t">>,
     \* "b": a server file name without extension
     Bare |->
        <<"b">>
    ]

\* valid_extensions
valid_extensions ==
    {<<".", "e", "p", "u", "b">>, <<".", "p", "d", "f">>, <<".", "t", "x", "t">>,
     <<".", "m", "o", "b", "i">>, <<".", "a", "z", "w", "3">>}

FileNameStem_NoTruncate(t) ==
    LET Kept(c) ==
            \/ c \in Digits
            \/ c \in DOMAIN LowerOf
            \/ \E i \in 1..Len(LowerCase) : LowerCase[i] = c
            \/ c \in {" ", "-", "_"}
        RECURSIVE RStrip(_)
        RStrip(k) ==
            IF k # <<>> /\ k[Len(k)] = " "
            THEN RStrip(SubSeq(k, 1, Len(k) - 1))
            ELSE k
        Replaced(k) == [i \in 1..Len(k) |-> IF k[i] = " " THEN "_" ELSE k[i]]
        Cut(k) == k
    IN  Cut(Replaced(RStrip(SelectSeq(t, Kept))))

\* "".join(c for c in title if c.isalnum() or c in (' ', '-', '_')).rstrip()
\* followed by .replace(" ", "_")[:100]
FileNameStem(t) ==
    LET Kept(c) ==
            \/ c \in Digits
            \/ c \in DOMAIN LowerOf
            \/ \E i \in 1..Len(LowerCase) : LowerCase[i] = c
            \/ c \in {" ", "-", "_"}
        RECURSIVE RStrip(_)
        RStrip(k) ==
            IF k # <<>> /\ k[Len(k)] = " "
            THEN RStrip(SubSeq(k, 1, Len(k) - 1))
            ELSE k
        Replaced(k) == [i \in 1..Len(k) |-> IF k[i] = " " THEN "_" ELSE k[i]]
        Cut(k) == SubSeq(k, 1, Min(100, Len(k)))
    IN  Cut(Replaced(RStrip(SelectSeq(t, Kept))))

\* os.path.splitext(p)[1]: from the last dot of the last component on, if a
\* character other than a dot stands before it in that component
splitext(p) ==
    LET Last(c) ==
            IF \E i \in 1..Len(p) : p[i] = c
            THEN CHOOSE i \in 1..Len(p) :
                     p[i] = c /\ \A j \in (i + 1)..Len(p) : p[j] # c
            ELSE 0
        Ext(sep, dot) ==
            IF dot > sep /\ \E k \in (sep + 1)..(dot - 1) : p[k] # "."
            THEN SubSeq(p, dot, Len(p))
            ELSE <<>>
    IN  Ext(Last("/"), Last("."))

\* the local file name download_file (downloader.py, book_downloader.py) and
\* download_file_ia build from the title and from the URL or the server file
\* name n; only the URL is cut at its first "?"
LocalFileName(c, t, n) ==
    LET BeforeQuery ==
            IF \E i \in 1..Len(n) : n[i] = "?"
            THEN SubSeq(n, 1, SetMin({i \in 1..Len(n) : n[i] = "?"}) - 1)
            ELSE n
        Chosen(ext) ==
            IF ext = <<>> \/ Lower(ext) \notin valid_extensions
            THEN <<".", "e", "p", "u", "b">>
            ELSE ext
    IN  FileNameStem(t)
            \o Chosen(splitext(IF c = "download_file_ia" THEN n ELSE BeforeQuery))

PreferredFormats_PdfFirst ==
    <<"application/pdf", "application/epub+zip", "text/plain">>

\* for preferred in ["application/epub+zip", "application/pdf", "text/plain"]
PreferredFormats ==
    <<"application/epub+zip", "application/pdf", "text/plain">>

RECURSIVE get_download_links(_, _)
\* get_download_links on a Gutenberg item with the format table f, from the
\* k-th preferred format on: f[preferred] of the first one `in formats`,
\* "None" when the loop ends
get_download_links(f, k) ==
    IF k > Len(PreferredFormats) THEN "None"
    ELSE IF PreferredFormats[k] \in DOMAIN f THEN f[PreferredFormats[k]]
    ELSE get_download_links(f, k + 1)

\* neither function has been called
ResolveIdle ==
    /\ resolvePc = "idle"
    /\ caller = "none"
    /\ item_title = <<>>
    /\ src_name = <<>>
    /\ filename = <<>>
    /\ item_source = "none"
    /\ formats = <<>>
    /\ link = "None"
    /\ requests = 0

\* a transfer is called with a title and a URL or server file name, or
\* get_download_links with a Gutenberg or an Internet Archive item
ResolveStart ==
    \/ /\ resolvePc = "name"
       /\ caller \in {"download_file", "download_file_ia", "book_downloader"}
       /\ item_title \in
              LET short == UNION {[1..n -> {"a", "7", " ", "-", "!"}] :
                                     n \in 0..MaxTitleLen}
              IN  short \cup {[i \in 1..98 |-> "a"] \o t : t \in short}
       /\ src_name \in {SampleNames[k] : k \in DOMAIN SampleNames}
       /\ filename = <<>>
       /\ item_source = "none"
       /\ formats = <<>>
       /\ link = "None"
       /\ requests = 0
    \/ /\ resolvePc = "links"
       /\ caller = "none"
       /\ item_title = <<>>
       /\ src_name = <<>>
       /\ filename = <<>>
       /\ item_source \in {"Gutenberg", "Internet Archive"}
       /\ formats \in
              IF item_source = "Gutenberg"
              THEN UNION {[mimes -> {"u1", "u2"}] : mimes \in SUBSET
                      {"application/epub+zip", "application/pdf", "text/plain",
                       "text/plain; charset=utf-8", "text/html", "image/jpeg"}}
              ELSE {<<>>}
       /\ link = "None"
       /\ requests = 0

\* the file name lines of download_file and download_file_ia
BuildFileName ==
    /\ resolvePc = "name"
    /\ filename' = LocalFileName(caller, item_title, src_name)
    /\ resolvePc' = "done"
    /\ UNCHANGED <<caller, item_title, src_name, item_source, formats, link, requests>>
    /\ UNCHANGED otherThanResolve

\* get_download_links(item): the Gutenberg branch reads the table; the
\* Internet Archive branch asks the metadata API, which fails ("exc"), lists
\* no .epub, .pdf or .txt file ("no_file") or lists one ("file")
GetDownloadLinks ==
    /\ resolvePc = "links"
    /\ IF item_source = "Gutenberg"
       THEN /\ link' = get_download_links(formats, 1)
            /\ requests' = requests
       ELSE \E o \in {"exc", "no_file", "file"} :
            /\ link' = IF o = "file" THEN "needs_ia_handling" ELSE "None"
            /\ requests' = requests + 1
    /\ resolvePc' = "done"
    /\ UNCHANGED <<caller, item_title, src_name, filename, item_source, formats>>
    /\ UNCHANGED otherThanResolve

(***************************************************************************)
(* Specifications                                                          *)
(***************************************************************************)

InitTransfer ==
    TransferStart /\ ScoreIdle /\ BookIdle /\ MangaIdle /\ NormIdle
        /\ FetchIdle /\ ResolveIdle

NextTransfer ==
    \/ DirectAttempt
    \/ IAAttempt
    \/ BDDownload
    \/ AnnasResolve
    \/ AnnasCandidate
    \/ BrowserOpen
    \/ BrowserPoll
    \/ BrowserLook

SpecTransfer == InitTransfer /\ [][NextTransfer]_vars

InitScore ==
    ScoreStart /\ TransferIdle /\ BookIdle /\ MangaIdle /\ NormIdle
        /\ FetchIdle /\ ResolveIdle

NextScore == ScoreTitle

SpecScore == InitScore /\ [][NextScore]_vars

InitBook ==
    BookStart /\ TransferIdle /\ ScoreIdle /\ MangaIdle /\ NormIdle
        /\ FetchIdle /\ ResolveIdle

NextBook == SearchBookSource

SpecBook == InitBook /\ [][NextBook]_vars

InitManga ==
    MangaStart /\ TransferIdle /\ ScoreIdle /\ BookIdle /\ NormIdle
        /\ FetchIdle /\ ResolveIdle

NextManga == SearchNextMangaSite

SpecManga == InitManga /\ [][NextManga]_vars

InitNorm ==
    NormStart /\ TransferIdle /\ ScoreIdle /\ BookIdle /\ MangaIdle
        /\ FetchIdle /\ ResolveIdle

NextNorm ==
    \/ RunDeduplicate
    \/ RunCleanup
    \/ RunHelperCleanup

SpecNorm == InitNorm /\ [][NextNorm]_vars

InitFetch ==
    FetchStart /\ TransferIdle /\ ScoreIdle /\ BookIdle /\ MangaIdle
        /\ NormIdle /\ ResolveIdle

NextFetch ==
    \/ DownloadMangaEnter
    \/ DownloadMangaChildDone
    \/ HelperEnter
    \/ HelperChildDone

SpecFetch == InitFetch /\ [][NextFetch]_vars

InitResolve ==
    ResolveStart /\ TransferIdle /\ ScoreIdle /\ BookIdle /\ MangaIdle
        /\ NormIdle /\ FetchIdle

NextResolve ==
    \/ BuildFileName
    \/ GetDownloadLinks

SpecResolve == InitResolve /\ [][NextResolve]_vars

(***************************************************************************)
(* Properties of the transfer executor                                     *)
(***************************************************************************)

IsGet(e) == e.ev = "get"
IsSleep(e) == e.ev = "sleep"

\* the endpoints a transfer streams the file from
TransferURLs == {"url", "download", "serve"}

\* the answers endpoint u has given so far, in request order
AnswersOf(u) ==
    LET hit(e) == IsGet(e) /\ e.url = u
        gets == SelectSeq(log, hit)
    IN  [i \in 1..Len(gets) |-> gets[i].out]

\* the retry waits (ms) taken so far on behalf of endpoint u, in order
BackoffOf(u) ==
    LET hit(e) == IsSleep(e) /\ e.url = u
        sl == SelectSeq(log, hit)
    IN  [i \in 1..Len(sl) |-> sl[i].ms]

\* the run on endpoint u is over: the transfer returned or moved to a later strategy
StrategyOver(u) ==
    \/ result # "none"
    \/ kind = "ia" /\ \E k \in 1..Len(Strategies) : Strategies[k] = u /\ k < strategy

ItemPageOk == \A i \in 1..Len(log) : (IsGet(log[i]) /\ log[i].url = "item") => log[i].out = "ok"

\* the failures the retry policy calls retryable
RetryableFailures == {"h403", "h503"} \cup NetworkErrors

\* C1: whenever download_file (direct URL), download_file_ia or
\* book_downloader.download_file has returned failure, no file exists at the
\* destination path, whatever the per-attempt outcomes were.
C1_NoFileAfterFailedTransfer ==
    (kind \in {"direct", "ia", "bd"} /\ result = "false") => file = "absent"

\* a strategy wrote a partial file and the transfer then failed
C1_Witness ==
    /\ kind = "ia" /\ result = "false"
    /\ \E i \in 1..Len(log) : IsGet(log[i]) /\ log[i].out \in MidStream
    /\ file = "absent"

\* C2: in the staged-negotiation HTTP fallback no partially written file is
\* left when the next candidate is tried nor when the transfer returns failure.
C2_StagedFallbackLeavesNoPartial ==
    (kind = "annas" /\ (pc = "candidate" \/ result = "false")) => file # "partial"

\* C3: against an endpoint that fails with a retryable condition (503, 403,
\* timeout, connection failure) on the first two attempts and succeeds on the
\* third, the transfer (direct URL, each download_file_ia strategy) makes
\* three attempts with waits of 1s then 2s, succeeds and leaves the complete
\* file: a retryable failure on attempt 1 or 2 never ends the run on that
\* endpoint.
C3_TwoRetryableFailuresThenSuccess ==
    (kind \in {"direct", "ia"} /\ ItemPageOk) =>
        \A u \in TransferURLs :
            LET a == AnswersOf(u)
            IN  /\ (/\ Len(a) \in 1..2
                    /\ \A i \in 1..Len(a) : a[i] \in RetryableFailures)
                       => ~StrategyOver(u)
                /\ (/\ Len(a) = 3
                    /\ a[1] \in RetryableFailures
                    /\ a[2] \in RetryableFailures
                    /\ a[3] = "ok")
                       => /\ result = "true"
                          /\ file = "complete"
                          /\ BackoffOf(u) = <<1000, 2000>>

\* C4: a 401 answer is never followed by another request to the same
\* endpoint, and a transfer whose endpoints all answer 401 returns failure
\* after exactly one request to each, with no file at the destination.
C4_Http401IsTerminal ==
    kind \in {"direct", "ia", "bd"} =>
        /\ \A i \in 1..Len(log) :
              (IsGet(log[i]) /\ log[i].url \in TransferURLs /\ log[i].out = "h401")
                  => \A j \in (i+1)..Len(log) : ~(IsGet(log[j]) /\ log[j].url = log[i].url)
        /\ (/\ result # "none"
            /\ \A i \in 1..Len(log) :
                  (IsGet(log[i]) /\ log[i].url \in TransferURLs) => log[i].out = "h401")
              => /\ result = "false"
                 /\ file = "absent"
                 /\ \A u \in TransferURLs : Len(AnswersOf(u)) <= 1
                 /\ \E u \in TransferURLs : Len(AnswersOf(u)) = 1

\* both strategy endpoints answered 401 once each and the transfer failed
C4_Witness ==
    /\ kind = "ia" /\ result = "false"
    /\ AnswersOf("download") = <<"h401">>
    /\ AnswersOf("serve") = <<"h401">>

\* C5: no strategy gets more than 3 attempts; the wait before attempt 2 is 1s
\* and before attempt 3 is 2s; every wait is followed by another attempt of
\* the same strategy (none after the last attempt or after a success).
C5_BoundedAttemptsAndBackoff ==
    kind \in {"direct", "ia"} =>
        /\ attempt < MaxAttempts
        /\ \A u \in TransferURLs :
              /\ Len(AnswersOf(u)) <= 3
              /\ Len(BackoffOf(u)) <= 2
              /\ \A k \in 1..Len(BackoffOf(u)) :
                    BackoffOf(u)[k] = IF k = 1 THEN 1000 ELSE 2000
        /\ \A i \in 1..Len(log) :
              (IsSleep(log[i]) /\ log[i].url \in TransferURLs) =>
                  IF i = Len(log)
                  THEN /\ pc = "attempt" /\ result = "none"
                       /\ attempt = Len(BackoffOf(log[i].url))
                       /\ (kind = "ia" => Strategies[strategy] = log[i].url)
                  ELSE IsGet(log[i+1]) /\ log[i+1].url = log[i].url

\* the serve strategy used all three attempts, waiting 1s and 2s, and failed
C5_Witness ==
    /\ kind = "ia" /\ result = "false"
    /\ Len(AnswersOf("serve")) = 3
    /\ BackoffOf("serve") = <<1000, 2000>>

C7_ScoreIsTotalAndReflexive ==
    /\ calculate_relevance(query, title) \in 0..100
    /\ calculate_relevance(query, query) = 100
    /\ score # Unscored =>
          /\ score \in 0..100
          /\ (query = title => score = 100)

\* a non-empty whitespace-only string scored against itself
C7_Witness ==
    /\ score = 100
    /\ query = title
    /\ query # <<>>
    /\ \A i \in 1..Len(query) : query[i] \in Whitespace

\* q is a prefix of t, character by character
IsPrefixOf(q, t) ==
    /\ Len(q) <= Len(t)
    /\ \A i \in 1..Len(q) : t[i] = q[i]

\* q occurs in t as a contiguous run of characters
IsSubstringOf(q, t) ==
    \E k \in 0..Len(t) :
        /\ k + Len(q) <= Len(t)
        /\ \A i \in 1..Len(q) : t[k + i] = q[i]

\* the four-rule reference: 100, 90, 80, then floor(100 f) when f >= 0.70
ReferenceScore(q0, t0) ==
    LET q == Strip(Lower(q0))
        t == Strip(Lower(t0))
        m == Cardinality(Words(q) \cap Words(t))
        n == Cardinality(Words(q))
    IN  IF q = t THEN 100
        ELSE IF IsPrefixOf(q, t) THEN 90
        ELSE IF IsSubstringOf(q, t) THEN 80
        ELSE IF 10 * m >= 7 * n THEN (100 * m) \div n
        ELSE 0

\* C8: calculate_relevance equals the four-rule reference (exact 100, prefix
\* 90, substring 80, token overlap floor(100 f) when f >= 0.70, else 0) on
\* lower-cased, trimmed strings; "Pride and Prejudice" scores 100 against
\* itself, 90 against the annotated edition and 0 against "Emma".
C8_ScoreEqualsFourRuleReference ==
    score # Unscored =>
        /\ score = ReferenceScore(query, title)
        /\ (query = PrideAndPrejudice /\ title = PrideAndPrejudice) => score = 100
        /\ (query = PrideAndPrejudice /\ title = PrideAnnotated) => score = 90
        /\ (query = PrideAndPrejudice /\ title = Emma) => score = 0

\* three of four query tokens are in the title: the token rule gives 75
C8_Witness ==
    /\ query = FourTokens
    /\ title = ThreeOfFour
    /\ score = 75

(***************************************************************************)
(* Properties of the book search                                           *)
(***************************************************************************)

RECURSIVE RelevanceOfAll(_)
\* the score of every entry of a result list against the search term
RelevanceOfAll(all) ==
    IF all = <<>> THEN <<>>
    ELSE Append(RelevanceOfAll(SubSeq(all, 1, Len(all) - 1)),
                calculate_relevance(book_title, all[Len(all)].title))

\* discovery position of an offered result: its index in all_results
DiscoveryPos(x) ==
    CHOOSE i \in 1..Len(all_results) :
        all_results[i].source = x.source /\ all_results[i].item = x.item

\* C9: the list offered for selection is the first 15 entries of the stable
\* descending-by-score ordering of the results with score > 0: sorted
\* non-increasingly, no score-0 entry, at most 15 long, equal scores in
\* discovery order, and nothing left out outranks (or, at equal score,
\* precedes in discovery order) anything kept.
C9_OfferedListIsStableTop15 ==
    bookOutcome \in {"offered", "no_relevant"} =>
        LET rel == RelevanceOfAll(all_results)
            n == Len(top_results)
            eligible == {i \in 1..Len(all_results) : rel[i] > 0}
            kept == {DiscoveryPos(top_results[k]) : k \in 1..n}
        IN  /\ n <= 15
            /\ n = Min(15, Cardinality(eligible))
            /\ \A k \in 1..n :
                  /\ \E i \in 1..Len(all_results) :
                        /\ all_results[i].source = top_results[k].source
                        /\ all_results[i].item = top_results[k].item
                        /\ all_results[i].title = top_results[k].title
                  /\ top_results[k].relevance = rel[DiscoveryPos(top_results[k])]
                  /\ top_results[k].relevance > 0
            /\ Cardinality(kept) = n
            /\ \A k, l \in 1..n :
                  k < l =>
                    /\ top_results[k].relevance >= top_results[l].relevance
                    /\ (top_results[k].relevance = top_results[l].relevance
                          => DiscoveryPos(top_results[k]) < DiscoveryPos(top_results[l]))
            /\ \A i \in eligible \ kept :
                  \A k \in 1..n :
                      /\ rel[i] <= top_results[k].relevance
                      /\ (rel[i] = top_results[k].relevance
                            => DiscoveryPos(top_results[k]) < i)

\* more than 15 results scored above 0, the offered list was cut to 15 and
\* holds equal scores from different sources as well as different scores
C9_Witness ==
    /\ bookOutcome = "offered"
    /\ Len(top_results) = 15
    /\ Len(ScoredResults(book_title, all_results)) > 15
    /\ \E k, l \in 1..15 :
          /\ k < l
          /\ top_results[k].relevance = top_results[l].relevance
          /\ top_results[k].source # top_results[l].source
    /\ top_results[1].relevance > top_results[15].relevance

(***************************************************************************)
(* Properties of the source adapters                                       *)
(***************************************************************************)

\* the ways a source can fail
SourceFailures == {"timeout", "conn", "http5xx", "parse"}

\* C10: a source failure (timeout, connection failure, HTTP 5xx, a response
\* that fails to parse part-way) yields an empty list together with an error
\* tag, and the results of the sources that answered are in the aggregate list.
C10_FailedSourceYieldsEmptyListAndTag ==
    /\ lastCall.what \in SourceFailures =>
          /\ lastCall.results = <<>>
          /\ lastCall.error # "none"
    /\ lastCall.what = "ok" =>
          /\ lastCall.error = "none"
          /\ Len(lastCall.results) <= Len(manga_results)
          /\ SubSeq(manga_results,
                    Len(manga_results) - Len(lastCall.results) + 1,
                    Len(manga_results)) = lastCall.results

(***************************************************************************)
(* Properties of the artifact normalizer                                   *)
(***************************************************************************)

\* the calls of deduplicate_chapters among the normalizer calls made
DedupRuns == {i \in 1..Len(runs) : runs[i].op = "deduplicate"}

\* two .cbz files of d carry the same series and chapter number
HasDuplicateGroup(d) ==
    \E f, g \in GlobCbz(d) \cap DOMAIN KeyOf : f # g /\ KeyOf[f] = KeyOf[g]

\* C11: deduplicate_chapters is idempotent: a second run right after a
\* first one leaves the surviving files of the first run as they are, and a
\* run on a directory without duplicate groups deletes nothing.
C11_DeduplicateIsIdempotent ==
    /\ \A i \in DedupRuns :
           (i + 1) \in DedupRuns => runs[i + 1].after = runs[i].after
    /\ \A i \in DedupRuns :
           ~HasDuplicateGroup(runs[i].before) =>
               /\ runs[i].after = runs[i].before
               /\ runs[i].removed_count = 0

\* a group of three was reduced by the first run and a second run followed
C11_Witness ==
    /\ Len(runs) = 2
    /\ DedupRuns = {1, 2}
    /\ {FileNames.Ch10, FileNames.Ch10v2, FileNames.Ch10Half} \subseteq runs[1].before
    /\ runs[1].removed_count = 2
    /\ runs[2].before = runs[1].after
    /\ dir = runs[1].after

\* the groups of a directory: its .cbz files that carry a series and a
\* chapter number, by that pair
GroupsOf(d) ==
    LET matched == {f \in d : EndsWith(f, DotCbz)} \cap DOMAIN KeyOf
    IN  {{g \in matched : KeyOf[g] = KeyOf[f]} : f \in matched}

\* s is a shortest name of the group and the least among the shortest
IsShortestThenLeast(s, group) ==
    \A g \in group :
        /\ Len(s) <= Len(g)
        /\ Len(s) = Len(g) => (s = g \/ StrLess(s, g))

\* C12: after a deduplicate_chapters run in which every deletion succeeds,
\* every group that had more than one file has exactly one surviving file,
\* the one with the shortest name and among equally short names the
\* lexicographically smallest; a group of one file is left as it was.
C12_ShortestNameSurvives ==
    \A i \in DedupRuns :
        undeletable = {} =>
            \A group \in GroupsOf(runs[i].before) :
                LET survivors == group \cap runs[i].after
                IN  /\ Cardinality(survivors) = 1
                    /\ \A s \in survivors : IsShortestThenLeast(s, group)

\* a run reduced a group in which the two shortest names are equally long
C12_Witness ==
    /\ Len(runs) >= 1
    /\ runs[1].op = "deduplicate"
    /\ undeletable = {}
    /\ runs[1].before = {FileNames.Ch10, FileNames.Ch10Lower, FileNames.Ch10v2}
    /\ runs[1].after = {FileNames.Ch10}

\* C13: deduplicate_chapters never deletes a file whose name does not match
\* the series/chapter pattern, nor a file that is not a .cbz archive.
C13_OnlyMatchingArchivesDeleted ==
    \A i \in DedupRuns :
        \A f \in runs[i].before :
            (~EndsWith(f, DotCbz) \/ f \notin DOMAIN KeyOf) =>
                f \in runs[i].after

\* a run deleted a duplicate next to a file that is no archive or no chapter
C13_Witness ==
    \E i \in DedupRuns :
        /\ runs[i].removed_count >= 1
        /\ \E f \in runs[i].before :
               /\ ~EndsWith(f, DotCbz) \/ f \notin DOMAIN KeyOf
               /\ f \in runs[i].after

\* group 2 at the positions t, extended over a decimal fraction whose
\* digits end just before f
WithFraction(s, t, f) ==
    IF t[2] + 2 <= Len(s) /\ s[t[2] + 1] = "." /\ f > t[2] + 2
    THEN SubSeq(s, t[1], f - 1)
    ELSE SubSeq(s, t[1], t[2])

NumberFrom(s, t) == WithFraction(s, t, SkipAll(s, t[2] + 2, Digits))

\* the chapter number written in a matching name, a decimal fraction
\* after the digits included
ChapterNumberWithFraction(s) ==
    NumberFrom(s, TailAt(s, SetMin(GroupOneLengths(s)) + 1))

\* the chapter number, fraction included, of every matching name of the pool
FullNumberOf == [f \in DOMAIN KeyOf |-> ChapterNumberWithFraction(f)]

\* C14: the chapter number keeps non-integer forms, so "Chapter 10" and
\* "Chapter 10.5" are in different groups: a file deleted as a duplicate
\* leaves behind a file of the same series with the same chapter number,
\* fraction included.
C14_HalfChaptersKeptApart ==
    \A i \in DedupRuns :
        \A f \in runs[i].before \ runs[i].after :
            \E g \in runs[i].after \cap DOMAIN KeyOf :
                /\ KeyOf[g][1] = KeyOf[f][1]
                /\ FullNumberOf[g] = FullNumberOf[f]

\* the calls of either cleanup_non_english_manga among the calls made
CleanupRuns == {i \in 1..Len(runs) : runs[i].op \in {"cleanup", "helper_cleanup"}}

\* the maximal runs of word characters of s, in lower case
WordRuns(s) ==
    {Lower(SubSeq(s, p[1], p[2])) : p \in
        {p \in (1..Len(s)) \X (1..Len(s)) :
            /\ p[1] <= p[2]
            /\ \A k \in p[1]..p[2] : s[k] \in WordChars
            /\ (p[1] = 1 \/ s[p[1] - 1] \notin WordChars)
            /\ (p[2] = Len(s) \/ s[p[2] + 1] \notin WordChars)}}

\* the name carries a parenthesized or bracketed language code, or a
\* language name as a word of its own
CarriesLanguageMarker(f) ==
    \/ \E code \in LanguageCodes \cup {<<"p", "t", "-", "b", "r">>} :
           Contains(Lower(f), <<"(">> \o code \o <<")">>)
    \/ \E code \in LanguageCodes :
           Contains(Lower(f), <<"[">> \o code \o <<"]">>)
    \/ WordRuns(f) \cap LanguageNames # {}

\* the names of the pool that carry a language marker
Marked == {f \in FilePool : CarriesLanguageMarker(f)}

\* C15: cleanup_non_english_manga (downloader.py and manga_helper.py)
\* deletes a .cbz file only if its name carries a non-target-language
\* marker; of "Solo Leveling - Chapter 0001.cbz" and "Solo Leveling -
\* Chapter 0001 Spanish.cbz" only the first survives.
C15_OnlyMarkedFilesDeleted ==
    \A i \in CleanupRuns :
        /\ \A f \in runs[i].before \ runs[i].after : f \in Marked
        /\ FileNames.Solo1 \in runs[i].before => FileNames.Solo1 \in runs[i].after
        /\ (FileNames.Solo1Spanish \in runs[i].before /\ undeletable = {}) =>
               FileNames.Solo1Spanish \notin runs[i].after

(***************************************************************************)
(* Properties of the chapter fetch                                         *)
(***************************************************************************)

\* download_manga has ended, by return, by sys.exit or by an exception
FetchEnded == fetchPc \in {"returned", "exited", "raised"}

\* C16: downloader.py's download_manga leaves the working directory equal
\* to its value on entry on every exit path (return, CalledProcessError,
\* FileNotFoundError, an exception during the normalization or before the
\* child starts), and while the child runs the working directory is the
\* destination directory that was given.
C16_WorkingDirectoryRestored ==
    impl = "downloader" =>
        /\ FetchEnded => cwd = StartDir
        /\ (fetchPc = "child" /\ args.download_dir # Absent) =>
               cwd = args.download_dir
        /\ (fetchPc = "child" /\ args.download_dir = Absent) => cwd = StartDir

\* the child ran in the destination directory and failed, and the call ended
C16_Witness ==
    /\ impl = "downloader"
    /\ args.download_dir = DestDir
    /\ fetchPc = "exited"
    /\ childExit = "nonzero"
    /\ original_dir = StartDir
    /\ cwd = StartDir

\* C17: when the child exits non-zero after writing some files,
\* deduplicate_chapters is still run on them before the call ends.
C17_DedupAfterFailedChild ==
    (FetchEnded /\ childExit = "nonzero" /\ childWrote # {}) =>
        \E i \in DedupRuns : childWrote \subseteq runs[i].before

\* C18: after the child exits with code 0, the files pass through both
\* normalization steps, duplicate removal and language filtering, before
\* download_manga returns.
C18_BothNormalizationSteps ==
    (fetchPc = "returned" /\ childExit = "ok") =>
        /\ \E i \in DedupRuns : childWrote \subseteq runs[i].before
        /\ CleanupRuns # {}

\* the argument vectors of the contract for a call a: an optional
\* "--language <code>", "--bundle" if bundling is asked for, the URL, the
\* chapter range if one is given
ContractVectors(a) ==
    {lang \o (IF a.bundle THEN <<"--bundle">> ELSE <<>>)
          \o (IF a.url # Absent THEN <<a.url>> ELSE <<>>)
          \o (IF a.chapters # Absent THEN <<a.chapters>> ELSE <<>>) :
        lang \in {<<>>} \cup {<<"--language", c>> : c \in {"en", "es"}}}

\* C19: for every (url, chapters, bundle, language, english_only) the
\* argument vector passed to the child is, after the binary, an optional
\* "--language <code>" pair, then an optional "--bundle", then the series
\* URL, then the optional chapter range, in downloader.py and in
\* manga_helper.py.
C19_ArgumentVectorShape ==
    cmd # <<>> => Tail(cmd) \in ContractVectors(args)

(***************************************************************************)
(* Properties of the destination directory                                 *)
(***************************************************************************)

\* C20: every file a transfer of download_file writes is created inside
\* download_dir, on the direct URL path, the Internet Archive strategies
\* and the HTTP fallback of the staged negotiation.
C20_FilesCreatedInDownloadDir ==
    (kind \in {"direct", "ia", "annas"} /\ wroteIn # "nowhere") =>
        wroteIn = download_dir

(***************************************************************************)
(* Further properties of the relevance ranker                              *)
(***************************************************************************)

\* the title holds every token of the query, but is not equal to the
\* query, does not start with it and does not contain it as a phrase
AllTokensOutOfOrder(q, t) ==
    /\ Words(Strip(Lower(q))) \subseteq Words(Strip(Lower(t)))
    /\ Strip(Lower(q)) # Strip(Lower(t))
    /\ ~IsPrefixOf(Strip(Lower(q)), Strip(Lower(t)))
    /\ ~IsSubstringOf(Strip(Lower(q)), Strip(Lower(t)))

\* C29: every value calculate_relevance returns is 0 or lies in 70..100,
\* never in 1..69; and a title that holds every query token without being
\* equal to the query, starting with it or containing it as a phrase scores
\* 100, the score of an exact match, above the 90 of a starts-with match.
C29_ScoreIsZeroOrAtLeast70 ==
    score # Unscored =>
        /\ score \in {0} \cup 70..100
        /\ AllTokensOutOfOrder(query, title) => score = 100

\* the tokens of the query, reordered, scored like an exact match
C29_Witness ==
    /\ query = <<"a", " ", "b">>
    /\ title = <<"b", " ", "a">>
    /\ score = 100

\* C30: for an empty or whitespace-only query calculate_relevance returns
\* 100 against an empty or whitespace-only title and 90 against every other
\* title: the result is never the 0 of the guard on an empty token set.
C30_EmptyQueryScores90Or100 ==
    (score # Unscored /\ \A i \in 1..Len(query) : query[i] \in Whitespace) =>
        score = IF \A i \in 1..Len(title) : title[i] \in Whitespace
                THEN 100 ELSE 90

\* a whitespace-only query was scored against a title with a token
C30_Witness ==
    /\ query = <<" ">>
    /\ title = <<"a", " ", "b">>
    /\ score = 90

\* C28: when download_file (direct URL) or download_file_ia returns failure, a
\* complete file that an earlier run left at the destination path is gone, even
\* when the transfer never received a byte of the body (every answer was an HTTP
\* error or a failure to connect): the failure handler removes whatever exists
\* at the path.
C28_EarlierFileRemovedOnFailure ==
    (/\ kind \in {"direct", "ia"}
     /\ result = "false"
     /\ fileBefore = "old"
     /\ \A i \in 1..Len(log) :
            IsGet(log[i]) => log[i].out \notin MidStream \cup {"ok"})
        => file = "absent"

C28_Witness ==
    /\ kind = "direct" /\ result = "false" /\ fileBefore = "old"
    /\ log = <<Get("url", "h401")>>
    /\ file = "absent"

\* the files a run of the downloader's normalizer op marks for deletion in the
\* directory before: every file of a group but its shortest-then-least one,
\* or every .cbz file the language patterns match
MarkedForDeletion(op, before) ==
    IF op = "deduplicate"
    THEN UNION {{f \in group : ~IsShortestThenLeast(f, group)} :
                   group \in GroupsOf(before)}
    ELSE GlobCbz(before) \cap MarkedByDownloader

\* C26: a deletion that fails during deduplicate_chapters or
\* cleanup_non_english_manga does not stop the run: every other marked file
\* is deleted, the file that could not be deleted stays, the function
\* returns, and the removed count it returns is the number of files that are
\* gone.
C26_FailedDeletionDoesNotStopRun ==
    \A i \in 1..Len(runs) :
        runs[i].op \in {"deduplicate", "cleanup"} =>
            LET marked == MarkedForDeletion(runs[i].op, runs[i].before)
            IN  /\ runs[i].before \ runs[i].after = marked \ undeletable
                /\ runs[i].removed_count = Cardinality(marked \ undeletable)

\* one of two duplicates of a chapter could not be deleted, the other was
C26_Witness ==
    /\ Len(runs) >= 1
    /\ runs[1].op = "deduplicate"
    /\ runs[1].before = {FileNames.Ch10, FileNames.Ch10Lower, FileNames.Ch10v2}
    /\ undeletable = {FileNames.Ch10Lower}
    /\ runs[1].after = {FileNames.Ch10, FileNames.Ch10Lower}
    /\ runs[1].removed_count = 1

\* C27: the manga list offered for selection has passed through the ranker:
\* when search_all_manga_sites has returned, the list handle_manga_download
\* shows (the returned list, row by row) holds no title that scores 0 against
\* the query and its scores never increase from one row to the next,
\* whichever title of the pool the query is.
C27_MangaListIsRanked ==
    siteIdx > Len(MANGA_SITES) =>
        \A k \in 1..Len(TitlePool) :
            /\ \A i \in 1..Len(manga_results) :
                   calculate_relevance(TitlePool[k], manga_results[i].title) > 0
            /\ \A i \in 2..Len(manga_results) :
                   calculate_relevance(TitlePool[k], manga_results[i].title)
                       <= calculate_relevance(TitlePool[k], manga_results[i - 1].title)

\* C22: every failing exit of the staged negotiation, in the browser resolver
\* and in the HTTP fallback alike, has printed the instruction to visit the
\* book's page by hand, naming the page URL.
C22_FailingExitNamesBookPage ==
    (kind \in {"annas", "browser"} /\ result = "false") => manual

\* the slow download requests of the log that were answered with HTTP 403 or
\* with a page holding the challenge marker
ChallengeAnswers ==
    {i \in 1..Len(log) :
        /\ IsGet(log[i])
        /\ log[i].url = "slow_download"
        /\ log[i].out \in {"h403", "ddos"}}

\* C23: in the HTTP fallback, a slow download response that is an anti-bot
\* challenge (HTTP 403, or the marker text in the body) ends the transfer at
\* once with the manual instruction: the challenged request is the last
\* event of the transfer and the only request to the slow download page, no
\* candidate is requested, and nothing is written.
C23_ChallengeShortCircuits ==
    (kind = "annas" /\ ChallengeAnswers # {}) =>
        /\ ChallengeAnswers = {Len(log)}
        /\ result = "false" /\ pc = "done" /\ manual
        /\ \A i \in 1..Len(log) :
               IsGet(log[i]) =>
                   /\ log[i].url # "candidate"
                   /\ (log[i].url = "slow_download" => i = Len(log))
        /\ cands = 0
        /\ wroteIn = "nowhere"
        /\ file = fileBefore

\* the slow download page answered 200 with the marker text in its body
C23_Witness ==
    /\ kind = "annas"
    /\ log = <<Get("book_page", "link"), Sleep("slow_download", HumanDelay),
               Get("slow_download", "ddos")>>
    /\ result = "false" /\ manual
    /\ file = "old"

\* C24: the wait loop of the browser resolver makes at most 20 one-second
\* polls whatever the page does, and it is left as soon as a poll sees the
\* page URL off the slow download path or a labelled link to another host:
\* while the loop is running fewer than 20 polls were made and the last one
\* saw neither, and the log holds one 1-second sleep per poll.
C24_PollLoopIsBounded ==
    kind = "browser" =>
        /\ polls <= 20
        /\ Cardinality({i \in 1..Len(log) :
               IsSleep(log[i]) /\ log[i].url = "slow_download"}) = polls
        /\ pc = "poll" =>
               /\ polls < 20
               /\ seen \notin {"redirected", "link"}
        /\ (polls > 0 /\ pc # "poll") =>
               (polls = 20 \/ seen # "slow")

\* the page never redirected and never showed a link: the loop ran out
C24_Witness ==
    /\ kind = "browser"
    /\ polls = 20
    /\ seen = "slow"
    /\ pc = "done"
    /\ result = "false"

(***************************************************************************)
(* Properties of the resolver                                              *)
(***************************************************************************)

\* an alphanumeric, a hyphen or an underscore
IsStemChar(c) ==
    \/ c \in Digits \cup {"-", "_"}
    \/ \E i \in 1..Len(LowerCase) : LowerCase[i] = LowerChar(c)

\* the position of the last dot of s, 0 if it has none
LastDot(s) ==
    IF \E i \in 1..Len(s) : s[i] = "."
    THEN CHOOSE i \in 1..Len(s) : s[i] = "." /\ \A j \in (i + 1)..Len(s) : s[j] # "."
    ELSE 0

\* the part of the name the extension is taken from: the server file name,
\* or the URL without its query string
PathOf(c, n) ==
    IF c = "download_file_ia" \/ \A i \in 1..Len(n) : n[i] # "?"
    THEN n
    ELSE SubSeq(n, 1, (CHOOSE i \in 1..Len(n) :
                          n[i] = "?" /\ \A j \in 1..(i - 1) : n[j] # "?") - 1)

\* the extension of a path: what its last component carries from its last dot
\* on, nothing if the component has no dot or only dots before that one
ExtensionOf(p) ==
    IF /\ LastDot(p) > 0
       /\ \A j \in LastDot(p)..Len(p) : p[j] # "/"
       /\ \E k \in 1..(LastDot(p) - 1) :
              /\ p[k] # "."
              /\ \A j \in k..LastDot(p) : p[j] # "/"
    THEN SubSeq(p, LastDot(p), Len(p))
    ELSE <<>>

\* f is a stem of at most 100 alphanumerics, hyphens and underscores followed
\* from position d on by an extension of the allow-list, which is .epub when
\* the extension e of the source is empty or not of the allow-list; Canon is
\* how an extension is compared with the allow-list
NameShape(f, d, e, Canon(_)) ==
    /\ d > 0
    /\ d - 1 <= 100
    /\ \A i \in 1..(d - 1) : IsStemChar(f[i])
    /\ Canon(SubSeq(f, d, Len(f))) \in valid_extensions
    /\ IF e = <<>> \/ Canon(e) \notin valid_extensions
       THEN SubSeq(f, d, Len(f)) = <<".", "e", "p", "u", "b">>
       ELSE SubSeq(f, d, Len(f)) = e

\* C21 as stated: the local file name built by download_file and
\* download_file_ia is a stem of alphanumerics, hyphens and underscores (no
\* space left) of length at most 100 followed by one of .epub, .pdf, .txt,
\* .mobi, .azw3, and the extension is .epub whenever the URL path or server
\* file name has no extension or one that is not in that list.
C21_LocalFileNameShape ==
    (resolvePc = "done" /\ caller # "none") =>
        NameShape(filename, LastDot(filename),
                  ExtensionOf(PathOf(caller, src_name)), LAMBDA e : e)

\* C21 as amended: the same with the allow-list compared without regard to
\* case: the extension of the source is kept as written when its lower-case
\* form is one of .epub, .pdf, .txt, .mobi, .azw3, and is .epub otherwise.
C21_LocalFileNameShapeAnyCase ==
    (resolvePc = "done" /\ caller # "none") =>
        NameShape(filename, LastDot(filename),
                  ExtensionOf(PathOf(caller, src_name)), Lower)

\* a title of 101 characters with a space at position 100 and a URL that
\* ends in .PDF: 99 letters, an underscore, and the extension as written
C21_Witness ==
    /\ resolvePc = "done"
    /\ caller = "download_file"
    /\ Len(item_title) = 101
    /\ item_title[100] = " "
    /\ src_name = SampleNames.UpperPdf
    /\ Len(filename) = 104
    /\ filename[100] = "_"
    /\ SubSeq(filename, 101, 104) = <<".", "P", "D", "F">>

\* C25: for a Gutenberg item get_download_links returns the URL the format
\* table holds for epub if it has one, else the one for pdf, else the one for
\* plain text; it returns None exactly when the table has none of the three
\* keys; and it makes no network request.
C25_GutenbergPreference ==
    (resolvePc = "done" /\ item_source = "Gutenberg") =>
        /\ link = IF "application/epub+zip" \in DOMAIN formats
                  THEN formats["application/epub+zip"]
                  ELSE IF "application/pdf" \in DOMAIN formats
                  THEN formats["application/pdf"]
                  ELSE IF "text/plain" \in DOMAIN formats
                  THEN formats["text/plain"]
                  ELSE "None"
        /\ link = "None" <=>
               DOMAIN formats \cap
                   {"application/epub+zip", "application/pdf", "text/plain"} = {}
        /\ requests = 0

\* no epub in the table: the pdf URL is returned, not the plain text one
C25_Witness ==
    /\ resolvePc = "done"
    /\ item_source = "Gutenberg"
    /\ DOMAIN formats = {"application/pdf", "text/plain", "text/html"}
    /\ formats["application/pdf"] = "u1"
    /\ formats["text/plain"] = "u2"
    /\ link = "u1"
    /\ requests = 0

====
